------------------------- MODULE DownloadTasksProofs -------------------------
(***************************************************************************)
(* Theorems about DownloadTasks, for any number of tasks, bodies and files *)
(* and every size of the disk and of its queue.                            *)
(*                                                                         *)
(* A reservation moves between the disk, a record, the pool, a transfer    *)
(* and a continuation that is still to run.  The lemmas on the             *)
(* coordinator's operations say how many reservations each of them books;  *)
(* each handler is then shown to give up elsewhere what it books.          *)
(***************************************************************************)
EXTENDS DownloadTasks, QueueLemmas

Held == {t \in Task : holds[t]}
Streaming == {b \in Body : body[b] = "streaming"}
Pooled == {f \in File : pool[f] # "none"}
Granted(s) == {x \in Caller : s[x] = "granted"}
\* What is free, in the pool, or granted and not yet continued
Booked == free + Cardinality(Granted(settled)) + Cardinality(Pooled)

Typed ==
    /\ status \in [Task -> Statuses \cup {"absent", "gone"}]
    /\ holds \in [Task -> BOOLEAN]
    /\ ticket \in [Task -> {"none", "valid", "lapsed"}]
    /\ handedOff \in [Task -> BOOLEAN]
    /\ age \in [Task -> 0..2]
    /\ saved \in [Task -> Statuses \cup {"absent"}]
    /\ row \in [Task -> Statuses \cup {"absent"}]
    /\ saving \in [Task -> SUBSET Statuses]
    /\ cached \in SUBSET File
    /\ body \in [Body -> {"idle", "arrived", "waiting", "streaming"}]
    /\ others \in Nat
    /\ loop \in [op : {"none", "sweep", "shutdown"}, todo : SUBSET Task]
    /\ running \in BOOLEAN

\* Nobody waits twice, nor with an answer pending, nor while there is room.
DiskInv ==
    /\ queue \in Seq(Caller) /\ IsInjective(queue)
    /\ settled \in [Caller -> Outcomes \cup {None}]
    /\ free \in Nat
    /\ pool \in [File -> {"none", "fresh", "stale"}]
    /\ \A x \in ToSet(queue) : settled[x] = None
    /\ queue # <<>> => free = 0

Conserved == Slots = Booked + others + Cardinality(Held) + Cardinality(Streaming)

\* Only a streamable task holds a reservation, and a ticket comes with one; what was
\* handed off is neither held again nor queued for again; and a task that waits has
\* not been cancelled and has not expired.
TaskInv(t) ==
    /\ holds[t] => status[t] = "streamable" /\ ~handedOff[t]
    /\ ticket[t] # "none" => holds[t]
    /\ handedOff[t] => status[t] \in {"streamable", "expired", "gone"}
    /\ t \in ToSet(queue) => status[t] \in {"queued", "streamable", "gone"}

BodyInv(b) == b \in ToSet(queue) \/ settled[b] # None => body[b] = "waiting"

Inv ==
    /\ Typed /\ DiskInv /\ Conserved
    /\ \A t \in Task : TaskInv(t)
    /\ \A b \in Body : BodyInv(b)
    /\ loop.op = "shutdown" => ~running

----------------------------------------------------------------------------
\* The coordinator's operations

\* Callers outside X neither join the queue nor get an answer they did not wait for.
Undisturbed(X) ==
    /\ ToSet(queue') \subseteq ToSet(queue) \cup X
    /\ \A y \in Caller : y \notin X /\ settled'[y] # None => settled[y] # None \/ y \in ToSet(queue)

LEMMA CallerFacts ==
    /\ IsFiniteSet(Caller) /\ IsFiniteSet(Task) /\ IsFiniteSet(Body) /\ IsFiniteSet(File)
    /\ \A t \in Task : t \in Caller /\ t \notin Body /\ FileOf[t] \in File
    /\ \A b \in Body : b \in Caller /\ b \notin Task /\ FileOf[b] \in File
BY CallerAssumption, FileAssumption, FS_Union DEF Caller

\* The pump serves a prefix of the queue: what was given back and what was free is
\* free or granted.
LEMMA GiveBackFacts ==
    ASSUME free \in Nat, NEW n \in Nat, NEW q \in Seq(Caller), IsInjective(q),
           NEW s \in [Caller -> Outcomes \cup {None}], \A x \in ToSet(q) : s[x] = None,
           giveBack(n, q, s)
    PROVE  /\ queue' \in Seq(Caller) /\ IsInjective(queue') /\ ToSet(queue') \subseteq ToSet(q)
           /\ settled' \in [Caller -> Outcomes \cup {None}] /\ free' \in Nat
           /\ \A x \in ToSet(queue') : settled'[x] = None
           /\ queue' # <<>> => free' = 0
           /\ \A x \in Caller : x \notin ToSet(q) => settled'[x] = s[x]
           /\ free' + Cardinality(Granted(settled')) = free + n + Cardinality(Granted(s))
           /\ Cardinality(Granted(settled')) \in Nat /\ Cardinality(Granted(s)) \in Nat
<1> DEFINE room == free + n
           served == IF room < Len(q) THEN room ELSE Len(q)
           lucky == {q[i] : i \in 1..served}
<1>1. /\ free' = room - served
      /\ queue' = SubSeq(q, served + 1, Len(q))
      /\ settled' = [x \in Caller |-> IF x \in lucky THEN "granted" ELSE s[x]]
  BY DEF giveBack
<1>2. /\ room \in Nat /\ served \in 0..Len(q) /\ room - served \in Nat
      /\ served # Len(q) => room - served = 0
  OBVIOUS
<1> HIDE DEF room, served
<1>3. /\ IsFiniteSet(lucky) /\ Cardinality(lucky) = served /\ lucky \subseteq ToSet(q)
      /\ queue' \in Seq(Caller) /\ IsInjective(queue') /\ ToSet(queue') = ToSet(q) \ lucky
      /\ queue' = <<>> <=> served = Len(q)
  <2>1. LET P == {q[i] : i \in 1..served}
            r == SubSeq(q, served + 1, Len(q)) IN
        /\ IsFiniteSet(P) /\ Cardinality(P) = served /\ P \subseteq ToSet(q)
        /\ r \in Seq(Caller) /\ IsInjective(r) /\ ToSet(r) = ToSet(q) \ P
        /\ r = <<>> <=> served = Len(q)
    BY <1>2, PrefixServed, Zenon
  <2> QED
    BY <1>1, <2>1
<1> HIDE DEF lucky
<1>4. \A x \in Caller : settled'[x] = IF x \in lucky THEN "granted" ELSE s[x]
  BY <1>1
<1>5. settled' \in [Caller -> Outcomes \cup {None}]
  BY <1>1 DEF Outcomes
<1>6. ToSet(q) \subseteq Caller
  BY DEF ToSet
<1>7. Granted(settled') = Granted(s) \cup lucky /\ Granted(s) \cap lucky = {}
  BY <1>3, <1>4, <1>6, NoneAssumption DEF Granted, Outcomes
<1>8. IsFiniteSet(Granted(s)) /\ Cardinality(Granted(s)) \in Nat
  BY CallerFacts, FS_Subset, FS_CardinalityType DEF Granted
<1>9. Cardinality(Granted(settled')) = Cardinality(Granted(s)) + served
  <2>1. Cardinality(Granted(s) \cup lucky) =
           Cardinality(Granted(s)) + Cardinality(lucky) - Cardinality(Granted(s) \cap lucky)
    BY <1>3, <1>8, FS_Union
  <2>2. Cardinality(Granted(s) \cap lucky) = 0
    BY <1>7, FS_EmptySet
  <2> QED
    BY <1>2, <1>3, <1>7, <1>8, <2>1, <2>2
<1>10. free' + Cardinality(Granted(settled')) = free + n + Cardinality(Granted(s))
  BY <1>1, <1>2, <1>8, <1>9 DEF room
<1>11. /\ \A x \in ToSet(queue') : settled'[x] = None
       /\ \A x \in Caller : x \notin ToSet(q) => settled'[x] = s[x]
  BY <1>3, <1>4, <1>6
<1> QED
  BY <1>1, <1>2, <1>3, <1>5, <1>8, <1>9, <1>10, <1>11

LEMMA PooledFacts ==
    ASSUME DiskInv
    PROVE  /\ IsFiniteSet(Pooled) /\ Cardinality(Pooled) \in Nat
           /\ \A f \in File : pool' = [pool EXCEPT ![f] = "none"] =>
                 /\ pool' \in [File -> {"none", "fresh", "stale"}]
                 /\ Cardinality(Pooled') = Cardinality(Pooled) - (IF pool[f] = "none" THEN 0 ELSE 1)
                 /\ Cardinality(Pooled') \in Nat
<1>1. IsFiniteSet(Pooled) /\ Cardinality(Pooled) \in Nat
  BY CallerFacts, FS_Subset, FS_CardinalityType DEF Pooled
<1>2. ASSUME NEW f \in File, pool' = [pool EXCEPT ![f] = "none"]
      PROVE  /\ pool' \in [File -> {"none", "fresh", "stale"}]
             /\ Cardinality(Pooled') = Cardinality(Pooled) - (IF pool[f] = "none" THEN 0 ELSE 1)
             /\ Cardinality(Pooled') \in Nat
  <2>1. pool' \in [File -> {"none", "fresh", "stale"}]
    BY <1>2 DEF DiskInv
  <2>2. /\ Pooled \in SUBSET File /\ Pooled' \in SUBSET File
        /\ \A x \in File : x # f => (x \in Pooled <=> x \in Pooled')
        /\ f \notin Pooled' /\ (f \in Pooled <=> pool[f] # "none")
    BY <1>2 DEF DiskInv, Pooled
  <2>3. IsFiniteSet(File)
    BY CallerFacts
  <2> QED
    BY <2>1, <2>2, <2>3, CountAfter
<1> QED
  BY <1>1, <1>2

LEMMA GrantedFacts ==
    ASSUME NEW s \in [Caller -> Outcomes \cup {None}]
    PROVE  /\ Cardinality(Granted(s)) \in Nat
           /\ \A x \in Caller : \A v \in Outcomes \cup {None} :
                 /\ [s EXCEPT ![x] = v] \in [Caller -> Outcomes \cup {None}]
                 /\ Cardinality(Granted([s EXCEPT ![x] = v])) =
                       Cardinality(Granted(s)) + (IF v = "granted" THEN 1 ELSE 0)
                       - (IF s[x] = "granted" THEN 1 ELSE 0)
<1>1. Cardinality(Granted(s)) \in Nat
  BY CallerFacts, FS_Subset, FS_CardinalityType DEF Granted
<1>2. ASSUME NEW x \in Caller, NEW v \in Outcomes \cup {None}
      PROVE  /\ [s EXCEPT ![x] = v] \in [Caller -> Outcomes \cup {None}]
             /\ Cardinality(Granted([s EXCEPT ![x] = v])) =
                   Cardinality(Granted(s)) + (IF v = "granted" THEN 1 ELSE 0)
                   - (IF s[x] = "granted" THEN 1 ELSE 0)
  <2> DEFINE r == [s EXCEPT ![x] = v]
  <2>1. r \in [Caller -> Outcomes \cup {None}]
    OBVIOUS
  <2>2. /\ Granted(s) \in SUBSET Caller /\ Granted(r) \in SUBSET Caller
        /\ \A y \in Caller : y # x => (y \in Granted(s) <=> y \in Granted(r))
        /\ (x \in Granted(s) <=> s[x] = "granted") /\ (x \in Granted(r) <=> v = "granted")
    BY DEF Granted
  <2>3. IsFiniteSet(Caller)
    BY CallerFacts
  <2> HIDE DEF r
  <2>4. Cardinality(Granted(r)) = Cardinality(Granted(s)) + (IF x \in Granted(r) THEN 1 ELSE 0)
                                  - (IF x \in Granted(s) THEN 1 ELSE 0)
    BY <2>2, <2>3, CountAfter
  <2>5. Cardinality(Granted(r)) = Cardinality(Granted(s)) + (IF v = "granted" THEN 1 ELSE 0)
                                  - (IF s[x] = "granted" THEN 1 ELSE 0)
    BY <2>2, <2>4
  <2> QED
    BY <2>1, <2>5 DEF r
<1> QED
  BY <1>1, <1>2

\* Giving back what was taken from the pool, or what a holder had
LEMMA GiveBackStep ==
    ASSUME DiskInv, NEW n \in Nat, giveBack(n, queue, settled),
           pool' \in [File -> {"none", "fresh", "stale"}], Cardinality(Pooled') \in Nat
    PROVE  /\ DiskInv' /\ Undisturbed({})
           /\ Booked' = Booked + n + Cardinality(Pooled') - Cardinality(Pooled)
<1>1. /\ queue \in Seq(Caller) /\ IsInjective(queue) /\ free \in Nat
      /\ settled \in [Caller -> Outcomes \cup {None}] /\ \A x \in ToSet(queue) : settled[x] = None
  BY DEF DiskInv
<1>2. /\ queue' \in Seq(Caller) /\ IsInjective(queue') /\ ToSet(queue') \subseteq ToSet(queue)
      /\ settled' \in [Caller -> Outcomes \cup {None}] /\ free' \in Nat
      /\ \A x \in ToSet(queue') : settled'[x] = None
      /\ queue' # <<>> => free' = 0
      /\ \A x \in Caller : x \notin ToSet(queue) => settled'[x] = settled[x]
      /\ free' + Cardinality(Granted(settled')) = free + n + Cardinality(Granted(settled))
      /\ Cardinality(Granted(settled')) \in Nat /\ Cardinality(Granted(settled)) \in Nat
  BY <1>1, GiveBackFacts
<1>3. DiskInv'
  BY <1>2 DEF DiskInv
<1>4. Undisturbed({})
  BY <1>2 DEF Undisturbed
<1>5. Booked' = Booked + n + Cardinality(Pooled') - Cardinality(Pooled)
  BY <1>1, <1>2, PooledFacts DEF Booked
<1> QED
  BY <1>3, <1>4, <1>5

\* reserve() books nothing by itself: what it takes from the pool or from the disk it
\* grants.
LEMMA ReserveStep ==
    ASSUME DiskInv, NEW x \in Caller, settled[x] = None, x \notin ToSet(queue), reserve(x)
    PROVE  DiskInv' /\ Undisturbed({x}) /\ Booked' = Booked
<1> DEFINE f == FileOf[x]
           stale == IF pool[f] = "stale" THEN 1 ELSE 0
<1>1. f \in File
  BY FileAssumption DEF Caller
<1>2. pool' = [pool EXCEPT ![f] = "none"]
  BY DEF reserve
<1>3. /\ pool' \in [File -> {"none", "fresh", "stale"}]
      /\ Cardinality(Pooled') = Cardinality(Pooled) - (IF pool[f] = "none" THEN 0 ELSE 1)
      /\ Cardinality(Pooled') \in Nat /\ Cardinality(Pooled) \in Nat
  BY <1>1, <1>2, PooledFacts
<1>4. /\ queue \in Seq(Caller) /\ IsInjective(queue) /\ free \in Nat
      /\ settled \in [Caller -> Outcomes \cup {None}] /\ \A y \in ToSet(queue) : settled[y] = None
      /\ pool[f] \in {"none", "fresh", "stale"}
  BY <1>1 DEF DiskInv
<1>5. stale \in Nat /\ (pool[f] # "fresh" => stale = (IF pool[f] = "none" THEN 0 ELSE 1))
  BY <1>4
<1>6. /\ Cardinality(Granted(settled)) \in Nat
      /\ \A v \in Outcomes :
            /\ [settled EXCEPT ![x] = v] \in [Caller -> Outcomes \cup {None}]
            /\ Cardinality(Granted([settled EXCEPT ![x] = v])) =
                  Cardinality(Granted(settled)) + (IF v = "granted" THEN 1 ELSE 0)
  <2>1. settled[x] # "granted"
    BY NoneAssumption DEF Outcomes
  <2> QED
    BY <1>4, <2>1, GrantedFacts
<1>7. "granted" \in Outcomes /\ "structural" \in Outcomes /\ "failed" \in Outcomes
  BY DEF Outcomes
<1> HIDE DEF f, stale
<1>8. ASSUME settled' = [settled EXCEPT ![x] = "granted"], UNCHANGED queue, free' \in Nat,
             queue # <<>> => free' = 0
      PROVE  /\ DiskInv' /\ Undisturbed({x})
             /\ Cardinality(Granted(settled')) = Cardinality(Granted(settled)) + 1
  <2>1. settled' \in [Caller -> Outcomes \cup {None}]
    BY <1>6, <1>7, <1>8
  <2>2. \A y \in Caller : y # x => settled'[y] = settled[y]
    BY <1>4, <1>8
  <2>3. ToSet(queue) \subseteq Caller
    BY <1>4 DEF ToSet
  <2>4. DiskInv'
    BY <1>3, <1>4, <1>8, <2>1, <2>2, <2>3 DEF DiskInv
  <2>5. Undisturbed({x})
    BY <1>8, <2>2 DEF Undisturbed
  <2> QED
    BY <1>6, <1>7, <1>8, <2>4, <2>5
<1>9. CASE /\ pool[f] = "fresh" /\ settled' = [settled EXCEPT ![x] = "granted"]
           /\ UNCHANGED <<free, queue>>
  <2>1. queue # <<>> => free' = 0
    BY <1>9 DEF DiskInv
  <2>2. DiskInv' /\ Undisturbed({x}) /\ Cardinality(Granted(settled')) = Cardinality(Granted(settled)) + 1
    BY <1>4, <1>8, <1>9, <2>1
  <2> QED
    BY <1>3, <1>4, <1>6, <1>9, <2>2 DEF Booked
<1>10. CASE /\ pool[f] # "fresh" /\ queue = <<>> /\ free + stale > 0 /\ free' = free + stale - 1
            /\ settled' = [settled EXCEPT ![x] = "granted"] /\ UNCHANGED queue
  <2>1. free' \in Nat
    BY <1>4, <1>5, <1>10
  <2>2. DiskInv' /\ Undisturbed({x}) /\ Cardinality(Granted(settled')) = Cardinality(Granted(settled)) + 1
    BY <1>8, <1>10, <2>1
  <2> QED
    BY <1>3, <1>4, <1>5, <1>6, <1>10, <2>2 DEF Booked
<1>11. CASE pool[f] # "fresh" /\ giveBack(stale, Append(queue, x), settled)
  <2> DEFINE q == Append(queue, x)
  <2>1. q \in Seq(Caller) /\ IsInjective(q) /\ ToSet(q) = ToSet(queue) \cup {x}
    BY <1>4, AppendSet
  <2>2. giveBack(stale, q, settled)
    BY <1>11
  <2> HIDE DEF q
  <2>3. \A y \in ToSet(q) : settled[y] = None
    BY <1>4, <2>1
  <2>4. /\ queue' \in Seq(Caller) /\ IsInjective(queue') /\ ToSet(queue') \subseteq ToSet(q)
        /\ settled' \in [Caller -> Outcomes \cup {None}] /\ free' \in Nat
        /\ \A y \in ToSet(queue') : settled'[y] = None
        /\ queue' # <<>> => free' = 0
        /\ \A y \in Caller : y \notin ToSet(q) => settled'[y] = settled[y]
        /\ free' + Cardinality(Granted(settled')) = free + stale + Cardinality(Granted(settled))
        /\ Cardinality(Granted(settled')) \in Nat
    BY <1>4, <1>5, <2>1, <2>2, <2>3, GiveBackFacts
  <2>5. DiskInv' /\ Undisturbed({x})
    BY <1>3, <2>1, <2>4 DEF DiskInv, Undisturbed
  <2>6. Cardinality(Pooled') = Cardinality(Pooled) - stale
    BY <1>3, <1>5, <1>11
  <2>7. Booked' = Booked
    BY <1>3, <1>4, <1>5, <1>6, <2>4, <2>6 DEF Booked
  <2> QED
    BY <2>5, <2>7
<1>12. ASSUME pool[f] # "fresh", NEW answer \in {"structural", "failed"},
              giveBack(stale, queue, [settled EXCEPT ![x] = answer])
       PROVE  DiskInv' /\ Undisturbed({x}) /\ Booked' = Booked
  <2> DEFINE s == [settled EXCEPT ![x] = answer]
  <2>1. /\ s \in [Caller -> Outcomes \cup {None}]
        /\ Cardinality(Granted(s)) = Cardinality(Granted(settled))
    BY <1>6, <1>7, <1>12
  <2>2. \A y \in Caller : y # x => s[y] = settled[y]
    BY <1>4
  <2>3. ToSet(queue) \subseteq Caller
    BY <1>4 DEF ToSet
  <2> HIDE DEF s
  <2>4. \A y \in ToSet(queue) : s[y] = None
    BY <1>4, <2>2, <2>3
  <2>5. giveBack(stale, queue, s)
    BY <1>12 DEF s
  <2>6. /\ queue' \in Seq(Caller) /\ IsInjective(queue') /\ ToSet(queue') \subseteq ToSet(queue)
        /\ settled' \in [Caller -> Outcomes \cup {None}] /\ free' \in Nat
        /\ \A y \in ToSet(queue') : settled'[y] = None
        /\ queue' # <<>> => free' = 0
        /\ \A y \in Caller : y \notin ToSet(queue) => settled'[y] = s[y]
        /\ free' + Cardinality(Granted(settled')) = free + stale + Cardinality(Granted(s))
        /\ Cardinality(Granted(settled')) \in Nat
    BY <1>4, <1>5, <2>1, <2>4, <2>5, GiveBackFacts
  <2>7. DiskInv' /\ Undisturbed({x})
    BY <1>3, <2>2, <2>6 DEF DiskInv, Undisturbed
  <2>8. Cardinality(Pooled') = Cardinality(Pooled) - stale
    BY <1>3, <1>5, <1>12
  <2>9. Booked' = Booked
    BY <1>3, <1>4, <1>5, <1>6, <2>1, <2>6, <2>8 DEF Booked
  <2> QED
    BY <2>7, <2>9
<1> QED
  BY <1>9, <1>10, <1>11, <1>12 DEF reserve, f, stale

LEMMA HeldFacts ==
    ASSUME Typed
    PROVE  /\ Cardinality(Held) \in Nat
           /\ \A t \in Task : \A v \in BOOLEAN : holds' = [holds EXCEPT ![t] = v] =>
                 /\ holds' \in [Task -> BOOLEAN] /\ holds'[t] = v
                 /\ \A u \in Task : u # t => holds'[u] = holds[u]
                 /\ Cardinality(Held') \in Nat
                 /\ Cardinality(Held') = Cardinality(Held) + (IF v THEN 1 ELSE 0)
                                         - (IF holds[t] THEN 1 ELSE 0)
<1>1. Cardinality(Held) \in Nat
  BY CallerFacts, FS_Subset, FS_CardinalityType DEF Held
<1>2. ASSUME NEW t \in Task, NEW v \in BOOLEAN, holds' = [holds EXCEPT ![t] = v]
      PROVE  /\ holds' \in [Task -> BOOLEAN] /\ holds'[t] = v
             /\ \A u \in Task : u # t => holds'[u] = holds[u]
             /\ Cardinality(Held') \in Nat
             /\ Cardinality(Held') = Cardinality(Held) + (IF v THEN 1 ELSE 0)
                                     - (IF holds[t] THEN 1 ELSE 0)
  <2>1. /\ holds' \in [Task -> BOOLEAN] /\ holds'[t] = v
        /\ \A u \in Task : u # t => holds'[u] = holds[u]
    BY <1>2 DEF Typed
  <2>2. /\ Held \in SUBSET Task /\ Held' \in SUBSET Task
        /\ \A u \in Task : u # t => (u \in Held <=> u \in Held')
        /\ (t \in Held <=> holds[t]) /\ (t \in Held' <=> v)
    BY <2>1 DEF Held
  <2>3. IsFiniteSet(Task)
    BY CallerFacts
  <2>4. /\ Cardinality(Held') \in Nat
        /\ Cardinality(Held') = Cardinality(Held) + (IF t \in Held' THEN 1 ELSE 0)
                                - (IF t \in Held THEN 1 ELSE 0)
    BY <2>2, <2>3, CountAfter
  <2> QED
    BY <2>1, <2>2, <2>4
<1> QED
  BY <1>1, <1>2

LEMMA StreamingFacts ==
    ASSUME Typed
    PROVE  /\ Cardinality(Streaming) \in Nat
           /\ \A b \in Body : \A v \in {"idle", "arrived", "waiting", "streaming"} :
                 body' = [body EXCEPT ![b] = v] =>
                    /\ body' \in [Body -> {"idle", "arrived", "waiting", "streaming"}]
                    /\ body'[b] = v /\ \A c \in Body : c # b => body'[c] = body[c]
                    /\ Cardinality(Streaming') \in Nat
                    /\ Cardinality(Streaming') =
                          Cardinality(Streaming) + (IF v = "streaming" THEN 1 ELSE 0)
                          - (IF body[b] = "streaming" THEN 1 ELSE 0)
<1>1. Cardinality(Streaming) \in Nat
  BY CallerFacts, FS_Subset, FS_CardinalityType DEF Streaming
<1>2. ASSUME NEW b \in Body, NEW v \in {"idle", "arrived", "waiting", "streaming"},
             body' = [body EXCEPT ![b] = v]
      PROVE  /\ body' \in [Body -> {"idle", "arrived", "waiting", "streaming"}]
             /\ body'[b] = v /\ \A c \in Body : c # b => body'[c] = body[c]
             /\ Cardinality(Streaming') \in Nat
             /\ Cardinality(Streaming') =
                   Cardinality(Streaming) + (IF v = "streaming" THEN 1 ELSE 0)
                   - (IF body[b] = "streaming" THEN 1 ELSE 0)
  <2>1. /\ body' \in [Body -> {"idle", "arrived", "waiting", "streaming"}]
        /\ body'[b] = v /\ \A c \in Body : c # b => body'[c] = body[c]
    BY <1>2 DEF Typed
  <2>2. /\ Streaming \in SUBSET Body /\ Streaming' \in SUBSET Body
        /\ \A c \in Body : c # b => (c \in Streaming <=> c \in Streaming')
        /\ (b \in Streaming <=> body[b] = "streaming") /\ (b \in Streaming' <=> v = "streaming")
    BY <2>1 DEF Streaming
  <2>3. IsFiniteSet(Body)
    BY CallerFacts
  <2>4. /\ Cardinality(Streaming') \in Nat
        /\ Cardinality(Streaming') = Cardinality(Streaming) + (IF b \in Streaming' THEN 1 ELSE 0)
                                     - (IF b \in Streaming THEN 1 ELSE 0)
    BY <2>2, <2>3, CountAfter
  <2> QED
    BY <2>1, <2>2, <2>4
<1> QED
  BY <1>1, <1>2

\* releaseResources: what the record gives up is booked again, and it waits no more.
LEMMA ReleaseStep ==
    ASSUME Typed, DiskInv, NEW t \in Task, releaseResources(t), UNCHANGED pool
    PROVE  /\ DiskInv' /\ Undisturbed({t}) /\ t \notin ToSet(queue')
           /\ ticket' \in [Task -> {"none", "valid", "lapsed"}] /\ holds' \in [Task -> BOOLEAN]
           /\ ticket'[t] = "none" /\ ~holds'[t]
           /\ \A u \in Task : u # t => ticket'[u] = ticket[u] /\ holds'[u] = holds[u]
           /\ Booked' + Cardinality(Held') = Booked + Cardinality(Held)
<1> DEFINE waits == \E i \in DOMAIN queue : queue[i] = t
           s == IF waits THEN [settled EXCEPT ![t] = "failed"] ELSE settled
           q == RemoveFirst(queue, t)
           n == IF holds[t] THEN 1 ELSE 0
<1>1. /\ ticket' = [ticket EXCEPT ![t] = "none"] /\ holds' = [holds EXCEPT ![t] = FALSE]
      /\ giveBack(n, q, s)
  BY DEF releaseResources
<1>2. /\ queue \in Seq(Caller) /\ IsInjective(queue) /\ free \in Nat
      /\ settled \in [Caller -> Outcomes \cup {None}] /\ \A y \in ToSet(queue) : settled[y] = None
      /\ t \in Caller /\ t \in Task
  BY CallerFacts DEF DiskInv
<1>3. q \in Seq(Caller) /\ IsInjective(q) /\ ToSet(q) = ToSet(queue) \ {t}
  BY <1>2, RemoveFirstSet
<1>4. waits <=> t \in ToSet(queue)
  BY DEF ToSet
<1>5. /\ s \in [Caller -> Outcomes \cup {None}]
      /\ \A y \in Caller : y # t => s[y] = settled[y]
      /\ Cardinality(Granted(s)) = Cardinality(Granted(settled))
      /\ Cardinality(Granted(settled)) \in Nat
  <2>1. CASE waits
    <3>1. settled[t] = None /\ settled[t] # "granted" /\ "failed" \in Outcomes
      BY <1>2, <1>4, <2>1, NoneAssumption DEF Outcomes
    <3>2. s = [settled EXCEPT ![t] = "failed"]
      BY <2>1
    <3> HIDE DEF s
    <3>3. \A y \in Caller : y # t => s[y] = settled[y]
      BY <1>2, <3>2
    <3>4. /\ s \in [Caller -> Outcomes \cup {None}] /\ Cardinality(Granted(settled)) \in Nat
          /\ Cardinality(Granted(s)) = Cardinality(Granted(settled)) + 0 - 0
      BY <1>2, <3>1, <3>2, GrantedFacts
    <3> QED
      BY <3>3, <3>4
  <2>2. CASE ~waits
    <3>1. s = settled
      BY <2>2
    <3> HIDE DEF s
    <3> QED
      BY <1>2, <3>1, GrantedFacts
  <2> QED
    BY <2>1, <2>2
<1>6. n \in Nat
  OBVIOUS
<1> HIDE DEF s, q, waits, n
<1>7. ToSet(queue) \subseteq Caller
  BY <1>2 DEF ToSet
<1>8. \A y \in ToSet(q) : s[y] = None
  BY <1>2, <1>3, <1>5, <1>7
<1>9. /\ queue' \in Seq(Caller) /\ IsInjective(queue') /\ ToSet(queue') \subseteq ToSet(q)
      /\ settled' \in [Caller -> Outcomes \cup {None}] /\ free' \in Nat
      /\ \A y \in ToSet(queue') : settled'[y] = None
      /\ queue' # <<>> => free' = 0
      /\ \A y \in Caller : y \notin ToSet(q) => settled'[y] = s[y]
      /\ free' + Cardinality(Granted(settled')) = free + n + Cardinality(Granted(s))
      /\ Cardinality(Granted(settled')) \in Nat
  BY <1>1, <1>2, <1>3, <1>5, <1>6, <1>8, GiveBackFacts
<1>10. DiskInv'
  BY <1>9 DEF DiskInv
<1>11. Undisturbed({t}) /\ t \notin ToSet(queue')
  BY <1>3, <1>5, <1>9 DEF Undisturbed
<1>12. /\ holds' \in [Task -> BOOLEAN] /\ ~holds'[t] /\ \A u \in Task : u # t => holds'[u] = holds[u]
       /\ Cardinality(Held') \in Nat /\ Cardinality(Held) \in Nat
       /\ Cardinality(Held') = Cardinality(Held) - n
  <2>1. /\ holds' \in [Task -> BOOLEAN] /\ holds'[t] = FALSE /\ \A u \in Task : u # t => holds'[u] = holds[u]
        /\ Cardinality(Held') \in Nat /\ Cardinality(Held) \in Nat
        /\ Cardinality(Held') = Cardinality(Held) + 0 - (IF holds[t] THEN 1 ELSE 0)
    BY <1>1, HeldFacts
  <2> QED
    BY <2>1 DEF n
<1>13. /\ ticket' \in [Task -> {"none", "valid", "lapsed"}] /\ ticket'[t] = "none"
       /\ \A u \in Task : u # t => ticket'[u] = ticket[u]
  BY <1>1 DEF Typed
<1>14. Pooled' = Pooled /\ Cardinality(Pooled) \in Nat
  BY PooledFacts DEF Pooled
<1>15. Booked' + Cardinality(Held') = Booked + Cardinality(Held)
  BY <1>2, <1>5, <1>6, <1>9, <1>12, <1>14 DEF Booked
<1> QED
  BY <1>10, <1>11, <1>12, <1>13, <1>15

----------------------------------------------------------------------------
\* Who does not act keeps its part of the invariant.

\* A step of task t
LEMMA TaskActs ==
    ASSUME Inv, NEW t \in Task, Typed', DiskInv', Conserved', Undisturbed({t}),
           \A u \in Task : u # t =>
              /\ status'[u] = status[u] /\ holds'[u] = holds[u]
              /\ ticket'[u] = ticket[u] /\ handedOff'[u] = handedOff[u],
           TaskInv(t)', UNCHANGED body, loop'.op = "shutdown" => ~running'
    PROVE  Inv'
<1>1. \A u \in Task : TaskInv(u)'
  <2> SUFFICES ASSUME NEW u \in Task, u # t PROVE TaskInv(u)'
    OBVIOUS
  <2> QED
    BY DEF Inv, TaskInv, Undisturbed
<1>2. \A b \in Body : BodyInv(b)'
  BY CallerFacts DEF Inv, BodyInv, Undisturbed
<1> QED
  BY <1>1, <1>2 DEF Inv

\* A step that leaves the records alone, of body b or of nobody
LEMMA OthersAct ==
    ASSUME Inv, NEW X \in SUBSET Body, Typed', DiskInv', Conserved', Undisturbed(X),
           UNCHANGED <<status, holds, ticket, handedOff>>,
           \A b \in Body \ X : body'[b] = body[b],
           \A b \in X : BodyInv(b)', loop'.op = "shutdown" => ~running'
    PROVE  Inv'
<1>1. \A u \in Task : TaskInv(u)'
  BY CallerFacts DEF Inv, TaskInv, Undisturbed
<1>2. \A b \in Body : BodyInv(b)'
  BY CallerFacts DEF Inv, BodyInv, Undisturbed
<1> QED
  BY <1>1, <1>2 DEF Inv

LEMMA PersistTypes ==
    ASSUME Typed, NEW t \in Task, NEW v \in Statuses, persistIfChanged(t, v)
    PROVE  /\ saved' \in [Task -> Statuses \cup {"absent"}]
           /\ row' \in [Task -> Statuses \cup {"absent"}]
           /\ saving' \in [Task -> SUBSET Statuses]
<1>1. saving[t] \cup {v} \in SUBSET Statuses
  BY DEF Typed
<1> QED
  BY <1>1 DEF Typed, persistIfChanged, table

LEMMA StatusTypes ==
    ASSUME Typed, NEW t \in Task, NEW v \in Statuses \cup {"absent", "gone"},
           status' = [status EXCEPT ![t] = v]
    PROVE  /\ status' \in [Task -> Statuses \cup {"absent", "gone"}] /\ status'[t] = v
           /\ \A u \in Task : u # t => status'[u] = status[u]
BY DEF Typed

LEMMA StatusNames ==
    /\ "queued" \in Statuses /\ "streamable" \in Statuses /\ "cancelled" \in Statuses
    /\ "expired" \in Statuses /\ "absent" \notin Statuses /\ "gone" \notin Statuses
BY DEF Statuses, Open

\* Between handlers no answer is pending.
LEMMA QuietFacts ==
    ASSUME Inv, Quiet
    PROVE  /\ loop = NoLoop /\ loop.op # "shutdown"
           /\ \A x \in Caller : settled[x] = None
BY DEF Quiet, NoLoop

LEMMA NatFacts ==
    ASSUME Inv
    PROVE  /\ Cardinality(Held) \in Nat /\ Cardinality(Streaming) \in Nat
           /\ Cardinality(Pooled) \in Nat /\ Cardinality(Granted(settled)) \in Nat
           /\ free \in Nat /\ others \in Nat /\ Booked \in Nat /\ Slots \in Nat
<1>1. Cardinality(Held) \in Nat /\ Cardinality(Streaming) \in Nat /\ Cardinality(Pooled) \in Nat
  BY HeldFacts, StreamingFacts, PooledFacts DEF Inv
<1>2. Cardinality(Granted(settled)) \in Nat /\ free \in Nat /\ others \in Nat
  BY GrantedFacts DEF Inv, DiskInv, Typed
<1> QED
  BY <1>1, <1>2, SlotsAssumption DEF Booked

\* The disk stays as it is.
LEMMA DiskSame ==
    ASSUME Inv, UNCHANGED disk
    PROVE  DiskInv' /\ Booked' = Booked /\ Undisturbed({}) /\ \A X : Undisturbed(X)
<1>1. queue' = queue /\ settled' = settled /\ free' = free /\ pool' = pool
  BY DEF disk
<1>2. DiskInv'
  BY <1>1 DEF Inv, DiskInv
<1>3. Booked' = Booked
  BY <1>1 DEF Booked, Granted, Pooled
<1>4. \A X : Undisturbed(X)
  BY <1>1 DEF Undisturbed
<1> QED
  BY <1>2, <1>3, <1>4

----------------------------------------------------------------------------
\* Tasks

LEMMA CreateStreamableStep == ASSUME Inv, NEW t \in Task, CreateStreamable(t) PROVE Inv'
<1> DEFINE f == FileOf[t]
           stale == IF pool[f] = "stale" THEN 1 ELSE 0
<1>1. /\ Quiet /\ status[t] = "absent" /\ status' = [status EXCEPT ![t] = "streamable"]
      /\ pool' = [pool EXCEPT ![f] = "none"] /\ persistIfChanged(t, "streamable")
      /\ UNCHANGED <<handedOff, age, cached, body, others, loop, running>>
  BY DEF CreateStreamable
<1>2. /\ ~holds[t] /\ ticket[t] = "none" /\ ~handedOff[t] /\ t \notin ToSet(queue)
      /\ f \in File /\ Typed /\ DiskInv
  BY <1>1, CallerFacts DEF Inv, TaskInv
<1>3. /\ status' \in [Task -> Statuses \cup {"absent", "gone"}] /\ status'[t] = "streamable"
      /\ \A u \in Task : u # t => status'[u] = status[u]
  BY <1>1, <1>2, StatusNames, StatusTypes
<1>4. /\ saved' \in [Task -> Statuses \cup {"absent"}] /\ row' \in [Task -> Statuses \cup {"absent"}]
      /\ saving' \in [Task -> SUBSET Statuses]
  BY <1>1, <1>2, StatusNames, PersistTypes
<1>5. /\ pool' \in [File -> {"none", "fresh", "stale"}]
      /\ Cardinality(Pooled') = Cardinality(Pooled) - (IF pool[f] = "none" THEN 0 ELSE 1)
      /\ Cardinality(Pooled') \in Nat
  BY <1>1, <1>2, PooledFacts
<1>6. /\ Cardinality(Held) \in Nat /\ Cardinality(Streaming) \in Nat
      /\ Cardinality(Pooled) \in Nat /\ Cardinality(Granted(settled)) \in Nat
      /\ free \in Nat /\ others \in Nat /\ Booked \in Nat /\ Slots \in Nat
  BY NatFacts
<1>7. stale \in Nat /\ (pool[f] # "fresh" => stale = (IF pool[f] = "none" THEN 0 ELSE 1))
  BY <1>2 DEF DiskInv
<1>8. Streaming' = Streaming /\ others' = others
  BY <1>1 DEF Streaming
<1> HIDE DEF f, stale
\* With a reservation
<1>9. ASSUME holdsTicket(t), UNCHANGED <<queue, settled>>, free' \in Nat, queue # <<>> => free' = 0,
             Booked' = Booked - 1
      PROVE  Inv'
  <2>1. holds' = [holds EXCEPT ![t] = TRUE] /\ ticket' = [ticket EXCEPT ![t] = "valid"]
    BY <1>9 DEF holdsTicket
  <2>2. /\ holds' \in [Task -> BOOLEAN] /\ holds'[t] = TRUE
        /\ \A u \in Task : u # t => holds'[u] = holds[u]
        /\ Cardinality(Held') = Cardinality(Held) + 1 - (IF holds[t] THEN 1 ELSE 0)
    BY <1>2, <2>1, HeldFacts
  <2>3. /\ ticket' \in [Task -> {"none", "valid", "lapsed"}] /\ ticket'[t] = "valid"
        /\ \A u \in Task : u # t => ticket'[u] = ticket[u]
    BY <1>2, <2>1 DEF Typed
  <2>4. Typed'
    BY <1>1, <1>2, <1>3, <1>4, <2>2, <2>3 DEF Typed
  <2>5. DiskInv'
    BY <1>2, <1>5, <1>9 DEF DiskInv
  <2>6. Cardinality(Held') = Cardinality(Held) + 1
    BY <1>2, <1>6, <2>2
  <2>7. Conserved'
    BY <1>6, <1>8, <1>9, <2>6 DEF Inv, Conserved
  <2>8. Undisturbed({t})
    BY <1>9 DEF Undisturbed
  <2>9. TaskInv(t)'
    BY <1>1, <1>2, <1>3, <1>9, <2>2 DEF TaskInv
  <2>10. loop'.op = "shutdown" => ~running'
    BY <1>1 DEF Inv
  <2> QED
    BY <1>1, <1>3, <2>2, <2>3, <2>4, <2>5, <2>7, <2>8, <2>9, <2>10, TaskActs
<1>10. CASE pool[f] = "fresh" /\ holdsTicket(t) /\ UNCHANGED <<free, queue, settled>>
  <2>1. Booked' = Booked - 1
    BY <1>5, <1>6, <1>10 DEF Booked, Granted
  <2>2. queue # <<>> => free' = 0
    BY <1>2, <1>10 DEF DiskInv
  <2> QED
    BY <1>6, <1>9, <1>10, <2>1, <2>2
<1>11. CASE /\ pool[f] # "fresh" /\ queue = <<>> /\ free + stale > 0 /\ holdsTicket(t)
            /\ free' = free + stale - 1 /\ UNCHANGED <<queue, settled>>
  <2>1. free' \in Nat
    BY <1>6, <1>7, <1>11
  <2>2. Cardinality(Pooled') = Cardinality(Pooled) - stale
    BY <1>5, <1>7, <1>11
  <2>3. Granted(settled') = Granted(settled)
    BY <1>11
  <2>4. Booked' = Booked - 1
    BY <1>5, <1>6, <1>7, <1>11, <2>2, <2>3 DEF Booked
  <2> QED
    BY <1>9, <1>11, <2>1, <2>4
<1>12. CASE pool[f] # "fresh" /\ giveBack(stale, queue, settled) /\ UNCHANGED <<holds, ticket>>
  <2>1. DiskInv' /\ Undisturbed({}) /\ Booked' = Booked + stale + Cardinality(Pooled') - Cardinality(Pooled)
    BY <1>2, <1>5, <1>7, <1>12, GiveBackStep
  <2>2. Cardinality(Pooled') = Cardinality(Pooled) - stale
    BY <1>5, <1>7, <1>12
  <2>3. Booked' = Booked
    BY <1>6, <1>7, <2>1, <2>2
  <2>4. Held' = Held
    BY <1>12 DEF Held
  <2>5. Conserved'
    BY <1>8, <2>3, <2>4 DEF Inv, Conserved
  <2>6. Typed'
    BY <1>1, <1>2, <1>3, <1>4, <1>12 DEF Typed
  <2>7. Undisturbed({t}) /\ t \notin ToSet(queue')
    BY <1>2, <2>1 DEF Undisturbed
  <2>8. TaskInv(t)'
    BY <1>1, <1>2, <1>3, <1>12, <2>7 DEF TaskInv
  <2>9. loop'.op = "shutdown" => ~running'
    BY <1>1 DEF Inv
  <2> QED
    BY <1>1, <1>3, <1>12, <2>1, <2>5, <2>6, <2>7, <2>8, <2>9, TaskActs
<1> QED
  BY <1>10, <1>11, <1>12 DEF CreateStreamable, f, stale

LEMMA CreateDirectStep == ASSUME Inv, NEW t \in Task, CreateDirect(t) PROVE Inv'
<1>1. /\ status[t] = "absent" /\ status' = [status EXCEPT ![t] = "streamable"]
      /\ persistIfChanged(t, "streamable") /\ Typed
      /\ UNCHANGED <<holds, ticket, handedOff, age, cached, disk, body, others, loop, running>>
  BY DEF CreateDirect, Inv
<1>2. /\ status' \in [Task -> Statuses \cup {"absent", "gone"}] /\ status'[t] = "streamable"
      /\ \A u \in Task : u # t => status'[u] = status[u]
  BY <1>1, StatusNames, StatusTypes
<1>3. /\ saved' \in [Task -> Statuses \cup {"absent"}] /\ row' \in [Task -> Statuses \cup {"absent"}]
      /\ saving' \in [Task -> SUBSET Statuses]
  BY <1>1, StatusNames, PersistTypes
<1>4. DiskInv' /\ Booked' = Booked /\ Undisturbed({t})
  BY <1>1, DiskSame
<1>5. Typed'
  BY <1>1, <1>2, <1>3 DEF Typed
<1>6. Conserved'
  BY <1>1, <1>4 DEF Inv, Conserved, Held, Streaming
<1>7. TaskInv(t)' /\ (loop'.op = "shutdown" => ~running')
  BY <1>1, <1>2 DEF Inv, TaskInv, disk
<1> QED
  BY <1>1, <1>2, <1>4, <1>5, <1>6, <1>7, TaskActs

LEMMA CreateQueuedStep == ASSUME Inv, NEW t \in Task, CreateQueued(t) PROVE Inv'
<1>1. /\ Quiet /\ status[t] = "absent" /\ status' = [status EXCEPT ![t] = "queued"] /\ reserve(t)
      /\ persistIfChanged(t, "queued") /\ Typed /\ DiskInv
      /\ UNCHANGED <<holds, ticket, handedOff, age, cached, body, others, loop, running>>
  BY DEF CreateQueued, Inv
<1>2. ~holds[t] /\ ticket[t] = "none" /\ ~handedOff[t] /\ t \notin ToSet(queue) /\ settled[t] = None
  BY <1>1, CallerFacts, QuietFacts DEF Inv, TaskInv
<1>3. /\ status' \in [Task -> Statuses \cup {"absent", "gone"}] /\ status'[t] = "queued"
      /\ \A u \in Task : u # t => status'[u] = status[u]
  BY <1>1, StatusNames, StatusTypes
<1>4. /\ saved' \in [Task -> Statuses \cup {"absent"}] /\ row' \in [Task -> Statuses \cup {"absent"}]
      /\ saving' \in [Task -> SUBSET Statuses]
  BY <1>1, StatusNames, PersistTypes
<1>5. DiskInv' /\ Booked' = Booked /\ Undisturbed({t})
  BY <1>1, <1>2, CallerFacts, ReserveStep
<1>6. Typed'
  BY <1>1, <1>3, <1>4 DEF Typed
<1>7. Conserved'
  BY <1>1, <1>5 DEF Inv, Conserved, Held, Streaming
<1>8. TaskInv(t)' /\ (loop'.op = "shutdown" => ~running')
  BY <1>1, <1>2, <1>3 DEF Inv, TaskInv
<1> QED
  BY <1>1, <1>3, <1>5, <1>6, <1>7, <1>8, TaskActs

\* A continuation that takes over what it was granted
LEMMA SettleStep ==
    ASSUME Inv, NEW x \in Caller, settled[x] # None,
           settled' = [settled EXCEPT ![x] = None], UNCHANGED <<queue, free, pool>>
    PROVE  /\ DiskInv' /\ (\A X : Undisturbed(X)) /\ x \notin ToSet(queue) /\ settled'[x] = None
           /\ Booked' = Booked - (IF settled[x] = "granted" THEN 1 ELSE 0)
<1>1. settled \in [Caller -> Outcomes \cup {None}] /\ x \notin ToSet(queue) /\ DiskInv
  BY DEF Inv, DiskInv
<1>2. /\ settled' \in [Caller -> Outcomes \cup {None}]
      /\ Cardinality(Granted(settled')) = Cardinality(Granted(settled)) + (IF None = "granted" THEN 1 ELSE 0)
                                          - (IF settled[x] = "granted" THEN 1 ELSE 0)
  BY <1>1, GrantedFacts
<1>3. settled'[x] = None /\ \A y \in Caller : y # x => settled'[y] = settled[y]
  BY <1>1
<1>4. ToSet(queue) \subseteq Caller
  BY <1>1 DEF ToSet, DiskInv
<1>5. DiskInv'
  BY <1>1, <1>2, <1>3, <1>4 DEF DiskInv
<1>6. \A X : Undisturbed(X)
  BY <1>3 DEF Undisturbed
<1>7. Pooled' = Pooled /\ None # "granted"
  BY NoneAssumption DEF Pooled, Outcomes
<1>8. Booked' = Booked - (IF settled[x] = "granted" THEN 1 ELSE 0)
  BY <1>2, <1>7, NatFacts DEF Booked
<1> QED
  BY <1>1, <1>3, <1>5, <1>6, <1>8

LEMMA ContinueGrantedStep ==
    ASSUME Inv, NEW t \in Task, ContinueGranted(t),
           UNCHANGED <<handedOff, age, cached, pool, body, others, loop, running>>
    PROVE  Inv'
<1>1. settled[t] = "granted" /\ t \in Caller /\ Typed /\ DiskInv /\ settled[t] # None
  BY CallerFacts, NoneAssumption DEF ContinueGranted, Inv, Outcomes
<1>2. /\ Cardinality(Held) \in Nat /\ Cardinality(Streaming) \in Nat
      /\ Cardinality(Pooled) \in Nat /\ Cardinality(Granted(settled)) \in Nat
      /\ free \in Nat /\ others \in Nat /\ Booked \in Nat /\ Slots \in Nat
  BY NatFacts
<1>3. Streaming' = Streaming /\ Pooled' = Pooled /\ (loop'.op = "shutdown" => ~running')
  BY DEF Streaming, Pooled, Inv
<1>4. CASE status[t] # "queued" \/ age[t] > 0
  <2> DEFINE s == [settled EXCEPT ![t] = None]
  <2>1. giveBack(1, queue, s) /\ UNCHANGED <<status, holds, ticket, table>>
    BY <1>4 DEF ContinueGranted
  <2>2. /\ queue \in Seq(Caller) /\ IsInjective(queue) /\ ToSet(queue) \subseteq Caller
        /\ settled \in [Caller -> Outcomes \cup {None}] /\ \A y \in ToSet(queue) : settled[y] = None
    BY <1>1 DEF DiskInv, ToSet
  <2>3. /\ s \in [Caller -> Outcomes \cup {None}]
        /\ Cardinality(Granted(s)) = Cardinality(Granted(settled)) + (IF None = "granted" THEN 1 ELSE 0)
                                     - (IF settled[t] = "granted" THEN 1 ELSE 0)
    BY <1>1, <2>2, GrantedFacts
  <2>4. \A y \in Caller : s[y] = None \/ s[y] = settled[y]
    BY <2>2
  <2> HIDE DEF s
  <2>5. Cardinality(Granted(s)) = Cardinality(Granted(settled)) - 1
    BY <1>1, <1>2, <2>3
  <2>6. \A y \in ToSet(queue) : s[y] = None
    BY <2>2, <2>4
  <2>7. /\ queue' \in Seq(Caller) /\ IsInjective(queue') /\ ToSet(queue') \subseteq ToSet(queue)
        /\ settled' \in [Caller -> Outcomes \cup {None}] /\ free' \in Nat
        /\ \A y \in ToSet(queue') : settled'[y] = None
        /\ queue' # <<>> => free' = 0
        /\ \A y \in Caller : y \notin ToSet(queue) => settled'[y] = s[y]
        /\ free' + Cardinality(Granted(settled')) = free + 1 + Cardinality(Granted(s))
        /\ Cardinality(Granted(settled')) \in Nat
    BY <1>2, <2>1, <2>2, <2>3, <2>6, GiveBackFacts
  <2>8. DiskInv'
    BY <1>1, <2>7 DEF DiskInv
  <2>9. Undisturbed({t})
    BY <2>4, <2>7 DEF Undisturbed
  <2>10. Booked' = Booked
    BY <1>2, <1>3, <2>5, <2>7 DEF Booked
  <2>11. Typed'
    BY <1>1, <2>1 DEF Typed, table
  <2>12. Conserved'
    BY <1>3, <2>1, <2>10 DEF Inv, Conserved, Held
  <2>13. TaskInv(t)'
    BY <2>1, <2>7 DEF Inv, TaskInv
  <2> QED
    BY <1>3, <2>1, <2>8, <2>9, <2>11, <2>12, <2>13, TaskActs
<1>5. CASE ~(status[t] # "queued" \/ age[t] > 0)
  <2>1. /\ status' = [status EXCEPT ![t] = "streamable"] /\ holdsTicket(t)
        /\ settled' = [settled EXCEPT ![t] = None] /\ persistIfChanged(t, "streamable")
        /\ UNCHANGED <<queue, free>> /\ status[t] = "queued"
    BY <1>5 DEF ContinueGranted
  <2>2. /\ DiskInv' /\ Undisturbed({t}) /\ t \notin ToSet(queue)
        /\ Booked' = Booked - (IF settled[t] = "granted" THEN 1 ELSE 0)
    BY <1>1, <2>1, SettleStep
  <2>3. /\ status' \in [Task -> Statuses \cup {"absent", "gone"}] /\ status'[t] = "streamable"
        /\ \A u \in Task : u # t => status'[u] = status[u]
    BY <1>1, <2>1, StatusNames, StatusTypes
  <2>4. /\ saved' \in [Task -> Statuses \cup {"absent"}] /\ row' \in [Task -> Statuses \cup {"absent"}]
        /\ saving' \in [Task -> SUBSET Statuses]
    BY <1>1, <2>1, StatusNames, PersistTypes
  <2>5. ~holds[t] /\ ~handedOff[t]
    BY <2>1 DEF Inv, TaskInv
  <2>6. holds' = [holds EXCEPT ![t] = TRUE] /\ ticket' = [ticket EXCEPT ![t] = "valid"]
    BY <2>1 DEF holdsTicket
  <2>7. /\ holds' \in [Task -> BOOLEAN] /\ holds'[t] = TRUE
        /\ \A u \in Task : u # t => holds'[u] = holds[u]
        /\ Cardinality(Held') = Cardinality(Held) + 1 - (IF holds[t] THEN 1 ELSE 0)
    BY <1>1, <2>6, HeldFacts
  <2>8. /\ ticket' \in [Task -> {"none", "valid", "lapsed"}] /\ ticket'[t] = "valid"
        /\ \A u \in Task : u # t => ticket'[u] = ticket[u]
    BY <1>1, <2>6 DEF Typed
  <2>9. Typed'
    BY <1>1, <2>3, <2>4, <2>7, <2>8 DEF Typed
  <2>10. Cardinality(Held') = Cardinality(Held) + 1 /\ Booked' = Booked - 1
    BY <1>1, <1>2, <2>2, <2>5, <2>7
  <2>11. Conserved'
    BY <1>2, <1>3, <2>10 DEF Inv, Conserved
  <2>12. TaskInv(t)'
    BY <2>1, <2>2, <2>3, <2>5, <2>7 DEF TaskInv
  <2> QED
    BY <1>3, <2>2, <2>3, <2>7, <2>8, <2>9, <2>11, <2>12, TaskActs
<1> QED
  BY <1>4, <1>5

LEMMA ContinueRefusedStep ==
    ASSUME Inv, NEW t \in Task, ContinueRefused(t),
           UNCHANGED <<handedOff, age, cached, pool, body, others, loop, running>>
    PROVE  Inv'
<1>1. /\ settled[t] # None /\ settled[t] # "granted" /\ t \in Caller /\ Typed
      /\ settled' = [settled EXCEPT ![t] = None] /\ UNCHANGED <<holds, ticket, queue, free>>
  BY CallerFacts, NoneAssumption DEF ContinueRefused, Inv, Outcomes
<1>2. DiskInv' /\ Undisturbed({t}) /\ t \notin ToSet(queue) /\ Booked' = Booked
  <2>1. /\ DiskInv' /\ Undisturbed({t}) /\ t \notin ToSet(queue)
        /\ Booked' = Booked - (IF settled[t] = "granted" THEN 1 ELSE 0)
    BY <1>1, SettleStep
  <2> QED
    BY <1>1, <2>1, NatFacts
<1>3. /\ Streaming' = Streaming /\ Held' = Held /\ others' = others
      /\ (loop'.op = "shutdown" => ~running')
  BY <1>1 DEF Streaming, Held, Inv
<1>4. Conserved'
  BY <1>2, <1>3 DEF Inv, Conserved
<1>5. CASE status[t] = "queued" /\ settled[t] = "structural"
  <2>1. status' = [status EXCEPT ![t] = "streamable"] /\ persistIfChanged(t, "streamable")
    BY <1>5 DEF ContinueRefused
  <2>2. /\ status' \in [Task -> Statuses \cup {"absent", "gone"}] /\ status'[t] = "streamable"
        /\ \A u \in Task : u # t => status'[u] = status[u]
    BY <1>1, <2>1, StatusNames, StatusTypes
  <2>3. /\ saved' \in [Task -> Statuses \cup {"absent"}] /\ row' \in [Task -> Statuses \cup {"absent"}]
        /\ saving' \in [Task -> SUBSET Statuses]
    BY <1>1, <2>1, StatusNames, PersistTypes
  <2>4. Typed'
    BY <1>1, <2>2, <2>3 DEF Typed
  <2>5. TaskInv(t)'
    BY <1>1, <1>2, <1>5, <2>2 DEF Inv, TaskInv
  <2> QED
    BY <1>1, <1>2, <1>3, <1>4, <2>2, <2>4, <2>5, TaskActs
<1>6. CASE ~(status[t] = "queued" /\ settled[t] = "structural")
  <2>1. UNCHANGED <<status, table>>
    BY <1>6 DEF ContinueRefused
  <2>2. Typed'
    BY <1>1, <2>1 DEF Typed, table
  <2>3. TaskInv(t)'
    BY <1>1, <2>1 DEF Inv, TaskInv
  <2> QED
    BY <1>1, <1>2, <1>3, <1>4, <2>1, <2>2, <2>3, TaskActs
<1> QED
  BY <1>5, <1>6

\* A record that ends, or whose reservation is taken back: it gives up what it holds.
LEMMA ReleasedStep ==
    ASSUME Inv, NEW t \in Task, NEW v \in Statuses \cup {"gone"}, releaseResources(t),
           status' = [status EXCEPT ![t] = v],
           handedOff[t] => v \in {"streamable", "expired", "gone"},
           saved' \in [Task -> Statuses \cup {"absent"}], row' \in [Task -> Statuses \cup {"absent"}],
           saving' \in [Task -> SUBSET Statuses],
           loop' \in [op : {"none", "sweep", "shutdown"}, todo : SUBSET Task], loop'.op = loop.op,
           UNCHANGED <<handedOff, age, cached, pool, body, others, running>>
    PROVE  Inv'
<1>1. /\ DiskInv' /\ Undisturbed({t}) /\ t \notin ToSet(queue')
      /\ ticket' \in [Task -> {"none", "valid", "lapsed"}] /\ holds' \in [Task -> BOOLEAN]
      /\ ticket'[t] = "none" /\ ~holds'[t]
      /\ \A u \in Task : u # t => ticket'[u] = ticket[u] /\ holds'[u] = holds[u]
      /\ Booked' + Cardinality(Held') = Booked + Cardinality(Held)
  BY ReleaseStep DEF Inv
<1>2. /\ status' \in [Task -> Statuses \cup {"absent", "gone"}] /\ status'[t] = v
      /\ \A u \in Task : u # t => status'[u] = status[u]
  BY StatusTypes DEF Inv
<1>3. Typed'
  BY <1>1, <1>2 DEF Inv, Typed
<1>4. Conserved'
  <2>1. Cardinality(Held') \in Nat
    BY <1>3, FS_Subset, FS_CardinalityType, CallerFacts DEF Held
  <2>2. Booked' \in Nat
    <3>1. Cardinality(Pooled') \in Nat /\ Cardinality(Granted(settled')) \in Nat /\ free' \in Nat
      BY <1>1, FS_Subset, FS_CardinalityType, CallerFacts DEF Pooled, Granted, DiskInv
    <3> QED
      BY <3>1 DEF Booked
  <2>3. Streaming' = Streaming
    BY DEF Streaming
  <2> QED
    BY <1>1, <2>1, <2>2, <2>3, NatFacts DEF Inv, Conserved
<1>5. TaskInv(t)' /\ (loop'.op = "shutdown" => ~running')
  BY <1>1, <1>2 DEF Inv, TaskInv
<1> QED
  BY <1>1, <1>2, <1>3, <1>4, <1>5, TaskActs

LEMMA ContinueTaskStep == ASSUME Inv, NEW t \in Task, ContinueTask(t) PROVE Inv'
BY ContinueGrantedStep, ContinueRefusedStep DEF ContinueTask

\* A step of task t that leaves the disk alone
LEMMA RecordStep ==
    ASSUME Inv, NEW t \in Task, Typed', UNCHANGED <<holds, handedOff, disk, body, others>>,
           \A u \in Task : u # t => status'[u] = status[u] /\ ticket'[u] = ticket[u],
           TaskInv(t)', loop'.op = "shutdown" => ~running'
    PROVE  Inv'
<1>1. DiskInv' /\ Booked' = Booked /\ Undisturbed({t})
  BY DiskSame
<1>2. Conserved'
  BY <1>1 DEF Inv, Conserved, Held, Streaming
<1> QED
  BY <1>1, <1>2, TaskActs

LEMMA RefreshStep == ASSUME Inv, NEW t \in Task, Refresh(t) PROVE Inv'
<1>1. /\ status[t] \in Statuses /\ evaluate(t) /\ persistIfChanged(t, status'[t]) /\ Typed
      /\ UNCHANGED <<handedOff, age, cached, pool, body, others, loop, running>>
  BY DEF Refresh, Inv
<1>2. /\ holds[t] => status[t] = "streamable" /\ ~handedOff[t]
      /\ ticket[t] # "none" => holds[t]
      /\ handedOff[t] => status[t] \in {"streamable", "expired", "gone"}
      /\ t \in ToSet(queue) => status[t] \in {"queued", "streamable", "gone"}
  BY DEF Inv, TaskInv
<1>3. ASSUME NEW v \in Statuses, status' = [status EXCEPT ![t] = v]
      PROVE  /\ status' \in [Task -> Statuses \cup {"absent", "gone"}] /\ status'[t] = v
             /\ \A u \in Task : u # t => status'[u] = status[u]
             /\ saved' \in [Task -> Statuses \cup {"absent"}]
             /\ row' \in [Task -> Statuses \cup {"absent"}]
             /\ saving' \in [Task -> SUBSET Statuses]
  <2>1. /\ status' \in [Task -> Statuses \cup {"absent", "gone"}] /\ status'[t] = v
        /\ \A u \in Task : u # t => status'[u] = status[u]
    BY <1>1, <1>3, StatusTypes
  <2> QED
    BY <1>1, <2>1, PersistTypes
<1>4. ASSUME NEW v \in Statuses, status' = [status EXCEPT ![t] = v], releaseResources(t),
             handedOff[t] => v \in {"streamable", "expired", "gone"}
      PROVE  Inv'
  <2>1. loop' \in [op : {"none", "sweep", "shutdown"}, todo : SUBSET Task] /\ loop'.op = loop.op
    BY <1>1 DEF Typed
  <2> QED
    BY <1>1, <1>3, <1>4, <2>1, ReleasedStep
<1>5. ASSUME NEW v \in Statuses, status' = [status EXCEPT ![t] = v],
             UNCHANGED <<ticket, holds, queue, settled, free>>,
             holds[t] \/ handedOff[t] => v = "streamable" \/ v = status[t],
             v \in {"queued", "streamable"} \/ v = status[t]
      PROVE  Inv'
  <2>1. Typed'
    BY <1>1, <1>3, <1>5 DEF Typed
  <2>2. TaskInv(t)'
    BY <1>1, <1>2, <1>3, <1>5 DEF TaskInv
  <2>3. UNCHANGED disk /\ (loop'.op = "shutdown" => ~running')
    BY <1>1, <1>5 DEF disk, Inv
  <2> QED
    BY <1>1, <1>3, <1>5, <2>1, <2>2, <2>3, RecordStep
<1>6. CASE status[t] = "cancelled" /\ UNCHANGED <<status, ticket, holds, queue, settled, free>>
  <2>1. status' = [status EXCEPT ![t] = status[t]]
    BY <1>1, <1>6 DEF Typed
  <2> QED
    BY <1>1, <1>5, <1>6, <2>1
<1>7. CASE releaseResources(t) /\ status' = [status EXCEPT ![t] = "expired"]
  BY <1>4, <1>7, StatusNames
<1>8. CASE holds[t] /\ releaseResources(t) /\ probed(t)
  BY <1>2, <1>4, <1>8, StatusNames DEF probed
<1>9. CASE /\ (holds[t] \/ handedOff[t]) /\ status' = [status EXCEPT ![t] = "streamable"]
           /\ UNCHANGED <<ticket, holds, queue, settled, free>>
  BY <1>5, <1>9, StatusNames
<1>10. CASE ~holds[t] /\ ~handedOff[t] /\ probed(t) /\ UNCHANGED <<ticket, holds, queue, settled, free>>
  BY <1>5, <1>10, StatusNames DEF probed
<1> QED
  BY <1>1, <1>6, <1>7, <1>8, <1>9, <1>10 DEF evaluate

LEMMA CancelStep == ASSUME Inv, NEW t \in Task, Cancel(t) PROVE Inv'
<1>1. /\ releaseResources(t) /\ status' = [status EXCEPT ![t] = "cancelled"] /\ ~handedOff[t]
      /\ persistIfChanged(t, "cancelled") /\ Typed
      /\ UNCHANGED <<handedOff, age, cached, pool, body, others, loop, running>>
  BY DEF Cancel, Inv
<1>2. /\ saved' \in [Task -> Statuses \cup {"absent"}] /\ row' \in [Task -> Statuses \cup {"absent"}]
      /\ saving' \in [Task -> SUBSET Statuses]
  BY <1>1, StatusNames, PersistTypes
<1>3. loop' \in [op : {"none", "sweep", "shutdown"}, todo : SUBSET Task] /\ loop'.op = loop.op
  BY <1>1 DEF Typed
<1>4. "cancelled" \in Statuses
  BY StatusNames
<1> QED
  BY <1>1, <1>2, <1>3, <1>4, ReleasedStep

LEMMA VisitStep == ASSUME Inv, NEW t \in Task, Visit(t) PROVE Inv'
<1>1. /\ t \in loop.todo /\ loop' = [loop EXCEPT !.todo = @ \ {t}] /\ Typed
      /\ UNCHANGED <<handedOff, age, table, cached, pool, body, others, running>>
  BY DEF Visit, Inv
<1>2. loop' \in [op : {"none", "sweep", "shutdown"}, todo : SUBSET Task] /\ loop'.op = loop.op
  BY <1>1 DEF Typed
<1>3. /\ saved' \in [Task -> Statuses \cup {"absent"}] /\ row' \in [Task -> Statuses \cup {"absent"}]
      /\ saving' \in [Task -> SUBSET Statuses]
  BY <1>1 DEF Typed, table
<1>4. /\ holds[t] => status[t] = "streamable" /\ ~handedOff[t]
      /\ ticket[t] # "none" => holds[t]
      /\ t \in ToSet(queue) => status[t] \in {"queued", "streamable", "gone"}
      /\ handedOff[t] => status[t] \in {"streamable", "expired", "gone"}
  BY DEF Inv, TaskInv
<1>5. ASSUME releaseResources(t), NEW v \in Statuses \cup {"gone"}, status' = [status EXCEPT ![t] = v],
             v \in {"streamable", "gone"}
      PROVE  Inv'
  BY <1>1, <1>2, <1>3, <1>5, ReleasedStep
<1>6. CASE sweep(t)
  <2> DEFINE v == IF age[t] = 2 THEN "gone" ELSE status[t]
  <2>1. status' = [status EXCEPT ![t] = v] /\ v \in Statuses \cup {"absent", "gone"}
    BY <1>1, <1>6 DEF sweep, Typed
  <2>2. v = "gone" \/ v = status[t]
    OBVIOUS
  <2> HIDE DEF v
  <2>3. CASE releaseResources(t) /\ (holds[t] \/ ticket[t] # "none")
    BY <1>4, <1>5, <2>1, <2>2, <2>3, StatusNames
  <2>4. CASE ~(age[t] > 0 /\ (holds[t] \/ ticket[t] # "none")) /\ UNCHANGED <<ticket, holds, queue, settled, free>>
    <3>1. /\ status' \in [Task -> Statuses \cup {"absent", "gone"}] /\ status'[t] = v
          /\ \A u \in Task : u # t => status'[u] = status[u]
      BY <1>1, <2>1, StatusTypes
    <3>2. Typed'
      BY <1>1, <1>2, <1>3, <2>4, <3>1 DEF Typed
    <3>3. v # "gone" \/ ~holds[t] \/ v = status[t]
      BY <1>1, <1>4, <2>4 DEF v, Typed
    <3>4. TaskInv(t)'
      BY <1>1, <1>4, <2>2, <2>4, <3>1, <3>3 DEF TaskInv
    <3>5. UNCHANGED disk /\ (loop'.op = "shutdown" => ~running')
      BY <1>1, <1>2, <2>4 DEF disk, Inv
    <3> QED
      BY <1>1, <2>4, <3>1, <3>2, <3>4, <3>5, RecordStep
  <2> QED
    BY <1>6, <2>3, <2>4 DEF sweep
<1>7. CASE releaseResources(t) /\ status' = [status EXCEPT ![t] = "gone"]
  BY <1>5, <1>7
<1> QED
  BY <1>6, <1>7 DEF Visit

LEMMA TaskTimeStep ==
    ASSUME Inv, NEW t \in Task,
           TicketLapses(t) \/ RecordAges(t) \/ SaveLands(t) \/ RowCleanup(t)
    PROVE  Inv'
<1> USE DEF Inv
<1>1. Typed /\ TaskInv(t)
  OBVIOUS
<1> USE DEF TaskInv
<1>2. CASE TicketLapses(t)
  <2>1. /\ ticket[t] = "valid" /\ ticket' = [ticket EXCEPT ![t] = "lapsed"]
        /\ UNCHANGED <<status, holds, handedOff, age, table, cached, disk, body, others, loop, running>>
    BY <1>2 DEF TicketLapses
  <2>2. Typed' /\ \A u \in Task : u # t => ticket'[u] = ticket[u]
    BY <1>1, <2>1 DEF Typed, table
  <2>3. TaskInv(t)'
    BY <1>1, <2>1 DEF disk
  <2> QED
    BY <2>1, <2>2, <2>3, RecordStep
<1>3. CASE RecordAges(t)
  <2>1. /\ age[t] < 2 /\ age' = [age EXCEPT ![t] = @ + 1]
        /\ UNCHANGED <<status, holds, ticket, handedOff, table, cached, disk, body, others, loop, running>>
    BY <1>3 DEF RecordAges
  <2>2. age' \in [Task -> 0..2]
    BY <1>1, <2>1 DEF Typed
  <2>3. Typed'
    BY <1>1, <2>1, <2>2 DEF Typed, table
  <2>4. TaskInv(t)'
    BY <1>1, <2>1 DEF disk
  <2> QED
    BY <2>1, <2>3, <2>4, RecordStep
<1>4. CASE SaveLands(t)
  <2>1. PICK s \in saving[t], ok \in DbOutcomes :
          /\ saving' = [saving EXCEPT ![t] = @ \ {s}]
          /\ row' = [row EXCEPT ![t] = IF ok THEN s ELSE @]
    BY <1>4 DEF SaveLands
  <2>2. UNCHANGED <<record, saved, cached, disk, body, others, loop, running>>
    BY <1>4 DEF SaveLands
  <2>3. saving[t] \in SUBSET Statuses /\ saving[t] \ {s} \in SUBSET Statuses /\ s \in Statuses
    BY <1>1, <2>1 DEF Typed
  <2>4. saving' \in [Task -> SUBSET Statuses] /\ row' \in [Task -> Statuses \cup {"absent"}]
    BY <1>1, <2>1, <2>3 DEF Typed
  <2>5. Typed'
    BY <1>1, <2>2, <2>4 DEF Typed, record
  <2>6. TaskInv(t)'
    BY <1>1, <2>2 DEF disk, record
  <2> QED
    BY <2>2, <2>5, <2>6, RecordStep DEF record
<1>5. CASE RowCleanup(t)
  <2>1. /\ row' = [row EXCEPT ![t] = "absent"]
        /\ UNCHANGED <<record, saved, saving, cached, disk, body, others, loop, running>>
    BY <1>5 DEF RowCleanup
  <2>2. Typed'
    BY <1>1, <2>1 DEF Typed, record
  <2>3. TaskInv(t)'
    BY <1>1, <2>1 DEF disk, record
  <2> QED
    BY <2>1, <2>2, <2>3, RecordStep DEF record
<1> QED
  BY <1>2, <1>3, <1>4, <1>5

----------------------------------------------------------------------------
\* Bodies

\* A GET arrives; it has nothing to do with the queue yet.
LEMMA ArrivalStep ==
    ASSUME Inv, Quiet, NEW t \in Task, NEW b \in Body, body[b] = "idle",
           body' = [body EXCEPT ![b] = "arrived"], Typed', DiskInv', Undisturbed({}),
           Booked' + Cardinality(Held') = Booked + Cardinality(Held),
           Booked' \in Nat, Cardinality(Held') \in Nat,
           \A u \in Task : u # t =>
              /\ status'[u] = status[u] /\ holds'[u] = holds[u]
              /\ ticket'[u] = ticket[u] /\ handedOff'[u] = handedOff[u],
           TaskInv(t)', UNCHANGED <<others, loop, running>>
    PROVE  Inv'
<1>1. Streaming' = Streaming
  BY DEF Inv, Typed, Streaming
<1>2. Conserved'
  BY <1>1, NatFacts DEF Inv, Conserved
<1>3. \A u \in Task : TaskInv(u)'
  <2> SUFFICES ASSUME NEW u \in Task, u # t PROVE TaskInv(u)'
    OBVIOUS
  <2> QED
    BY DEF Inv, TaskInv, Undisturbed
<1>4. \A c \in Body : BodyInv(c)'
  <2> SUFFICES ASSUME NEW c \in Body PROVE BodyInv(c)'
    OBVIOUS
  <2>1. /\ c \in ToSet(queue') \/ settled'[c] # None => c \in ToSet(queue) \/ settled[c] # None
        /\ c \in ToSet(queue) \/ settled[c] # None => body[c] = "waiting"
    BY CallerFacts DEF Inv, BodyInv, Undisturbed
  <2>2. c # b => body'[c] = body[c]
    BY DEF Inv, Typed
  <2> QED
    BY <2>1, <2>2 DEF BodyInv
<1> QED
  BY <1>2, <1>3, <1>4 DEF Inv

\* handOffToSession: the pool takes one more reservation than it gives back.
LEMMA HandOffStep ==
    ASSUME Inv, NEW f \in File, handOffToSession(f)
    PROVE  DiskInv' /\ Undisturbed({}) /\ Booked' = Booked + 1
<1> DEFINE out == {g \in File : pool[g] = "stale" \/ (g = f /\ pool[g] # "none")}
<1>1. /\ pool' = [g \in File |-> IF g = f THEN "fresh" ELSE IF g \in out THEN "none" ELSE pool[g]]
      /\ giveBack(Cardinality(out), queue, settled)
  BY DEF handOffToSession
<1>2. DiskInv /\ pool \in [File -> {"none", "fresh", "stale"}]
  BY DEF Inv, DiskInv
<1>3. out \subseteq Pooled /\ (f \in Pooled => f \in out)
  BY DEF Pooled
<1> HIDE DEF out
<1>4. /\ pool' \in [File -> {"none", "fresh", "stale"}]
      /\ Pooled' = (Pooled \ out) \cup {f} /\ f \notin Pooled \ out
  <2>1. \A g \in File : pool'[g] = IF g = f THEN "fresh" ELSE IF g \in out THEN "none" ELSE pool[g]
    BY <1>1
  <2> QED
    BY <1>1, <1>2, <1>3, <2>1 DEF Pooled
<1>5. IsFiniteSet(Pooled) /\ Cardinality(Pooled) \in Nat
  BY <1>2, PooledFacts
<1>6. /\ IsFiniteSet(Pooled \ out) /\ IsFiniteSet(out) /\ Cardinality(out) \in Nat
      /\ Cardinality(Pooled \ out) = Cardinality(Pooled) - Cardinality(out)
  <2>1. Pooled \cap out = out
    BY <1>3
  <2>2. IsFiniteSet(out) /\ Cardinality(out) \in Nat
    BY <1>3, <1>5, FS_Subset, FS_CardinalityType
  <2>3. /\ IsFiniteSet(Pooled \ out)
        /\ Cardinality(Pooled \ out) = Cardinality(Pooled) - Cardinality(Pooled \cap out)
    BY <1>5, FS_Difference
  <2> QED
    BY <2>1, <2>2, <2>3
<1>7. /\ Cardinality((Pooled \ out) \cup {f}) = Cardinality(Pooled \ out) + 1
      /\ Cardinality(Pooled \ out) \in Nat
  BY <1>4, <1>6, FS_AddElement, FS_CardinalityType
<1>8. Cardinality(Pooled') = Cardinality(Pooled) - Cardinality(out) + 1 /\ Cardinality(Pooled') \in Nat
  BY <1>4, <1>5, <1>6, <1>7
<1>9. /\ DiskInv' /\ Undisturbed({})
      /\ Booked' = Booked + Cardinality(out) + Cardinality(Pooled') - Cardinality(Pooled)
  BY <1>1, <1>2, <1>4, <1>6, <1>8, GiveBackStep
<1> QED
  BY <1>5, <1>6, <1>8, <1>9, NatFacts

LEMMA ArriveInvitedStep ==
    ASSUME Inv, NEW t \in Task, NEW b \in Body, ArriveInvited(b, t)
    PROVE  Inv'
<1>1. /\ Quiet /\ body[b] = "idle" /\ ticket[t] = "valid"
      /\ body' = [body EXCEPT ![b] = "arrived"] /\ Typed /\ DiskInv
      /\ UNCHANGED <<status, age, table, cached, others, loop, running>>
  BY DEF ArriveInvited, Inv
<1>2. /\ ticket' = [ticket EXCEPT ![t] = "none"] /\ holds' = [holds EXCEPT ![t] = FALSE]
      /\ handedOff' = [handedOff EXCEPT ![t] = TRUE] /\ handOffToSession(FileOf[t])
  BY DEF ArriveInvited, consumeTicket
<1>3. holds[t] /\ status[t] = "streamable" /\ ~handedOff[t]
  BY <1>1 DEF Inv, TaskInv
<1>4. DiskInv' /\ Undisturbed({}) /\ Booked' = Booked + 1
  BY <1>2, CallerFacts, HandOffStep
<1>5. /\ holds' \in [Task -> BOOLEAN] /\ holds'[t] = FALSE /\ Cardinality(Held') \in Nat
      /\ \A u \in Task : u # t => holds'[u] = holds[u]
      /\ Cardinality(Held') = Cardinality(Held) + 0 - (IF holds[t] THEN 1 ELSE 0)
  BY <1>1, <1>2, HeldFacts
<1>6. Booked' + Cardinality(Held') = Booked + Cardinality(Held) /\ Booked' \in Nat
  BY <1>3, <1>4, <1>5, NatFacts
<1>7. /\ ticket' \in [Task -> {"none", "valid", "lapsed"}] /\ ticket'[t] = "none"
      /\ handedOff' \in [Task -> BOOLEAN]
      /\ body' \in [Body -> {"idle", "arrived", "waiting", "streaming"}]
      /\ \A u \in Task : u # t => ticket'[u] = ticket[u] /\ handedOff'[u] = handedOff[u]
  BY <1>1, <1>2 DEF Typed
<1>8. Typed'
  BY <1>1, <1>5, <1>7 DEF Typed, table
<1>9. TaskInv(t)'
  BY <1>1, <1>3, <1>5, <1>7 DEF TaskInv
<1> QED
  BY <1>1, <1>4, <1>5, <1>6, <1>7, <1>8, <1>9, ArrivalStep

LEMMA ArriveMistakenStep ==
    ASSUME Inv, NEW t \in Task, NEW b \in Body, ArriveMistaken(b, t)
    PROVE  Inv'
<1>1. /\ Quiet /\ body[b] = "idle" /\ ticket' = [ticket EXCEPT ![t] = "none"]
      /\ body' = [body EXCEPT ![b] = "arrived"] /\ Typed
      /\ UNCHANGED <<status, holds, handedOff, age, table, cached, disk, others, loop, running>>
  BY DEF ArriveMistaken, Inv
<1>2. DiskInv' /\ Undisturbed({}) /\ Booked' = Booked /\ Held' = Held
  BY <1>1, DiskSame DEF Held
<1>3. /\ ticket' \in [Task -> {"none", "valid", "lapsed"}] /\ ticket'[t] = "none"
      /\ body' \in [Body -> {"idle", "arrived", "waiting", "streaming"}]
      /\ \A u \in Task : u # t => ticket'[u] = ticket[u]
  BY <1>1 DEF Typed
<1>4. Typed'
  BY <1>1, <1>3 DEF Typed, table
<1>5. TaskInv(t)'
  BY <1>1, <1>3 DEF Inv, TaskInv, disk
<1>6. Booked' \in Nat /\ Cardinality(Held') \in Nat
  BY <1>2, NatFacts
<1> QED
  BY <1>1, <1>2, <1>3, <1>4, <1>5, <1>6, ArrivalStep

\* A step of body b alone
LEMMA BodyActs ==
    ASSUME Inv, NEW b \in Body, NEW v \in {"idle", "arrived", "waiting", "streaming"},
           body' = [body EXCEPT ![b] = v], DiskInv', Undisturbed({b}), cached' \in SUBSET File,
           Booked' = Booked + (IF body[b] = "streaming" THEN 1 ELSE 0)
                     - (IF v = "streaming" THEN 1 ELSE 0),
           b \in ToSet(queue') \/ settled'[b] # None => v = "waiting",
           UNCHANGED <<record, table, others, loop, running>>
    PROVE  Inv'
<1>1. /\ body' \in [Body -> {"idle", "arrived", "waiting", "streaming"}]
      /\ body'[b] = v /\ \A c \in Body : c # b => body'[c] = body[c]
      /\ Cardinality(Streaming') =
            Cardinality(Streaming) + (IF v = "streaming" THEN 1 ELSE 0)
            - (IF body[b] = "streaming" THEN 1 ELSE 0)
  BY StreamingFacts DEF Inv
<1>2. Typed'
  BY <1>1 DEF Inv, Typed, record, table
<1>3. Held' = Held
  BY DEF Held, record
<1>4. Conserved'
  BY <1>1, <1>3, NatFacts DEF Inv, Conserved
<1>5. BodyInv(b)' /\ (loop'.op = "shutdown" => ~running')
  BY <1>1 DEF BodyInv, Inv
<1>6. UNCHANGED <<status, holds, ticket, handedOff>>
  BY DEF record
<1> DEFINE X == {b}
<1>7. /\ X \in SUBSET Body /\ Undisturbed(X)
      /\ \A c \in Body \ X : body'[c] = body[c]
      /\ \A c \in X : BodyInv(c)'
  BY <1>1, <1>5
<1> HIDE DEF X
<1> QED
  BY <1>2, <1>4, <1>5, <1>6, <1>7, OthersAct

LEMMA BodyStep ==
    ASSUME Inv, NEW b \in Body, Arrive(b) \/ BodyReserves(b) \/ ContinueBody(b) \/ BodyEnds(b)
    PROVE  Inv'
<1>1. /\ Typed /\ DiskInv /\ b \in Caller /\ cached \in SUBSET File /\ FileOf[b] \in File
      /\ Booked \in Nat /\ Cardinality(Pooled) \in Nat
      /\ b \in ToSet(queue) \/ settled[b] # None => body[b] = "waiting"
  BY CallerFacts, NatFacts DEF Inv, Typed, BodyInv
<1>2. ASSUME NEW v \in {"idle", "arrived"}, body[b] \in {"idle", "arrived"},
             body' = [body EXCEPT ![b] = v],
             UNCHANGED <<record, table, cached, disk, others, loop, running>>
      PROVE  Inv'
  <2>1. DiskInv' /\ Undisturbed({b}) /\ Booked' = Booked
    BY <1>2, DiskSame
  <2>2. cached' \in SUBSET File
    BY <1>1, <1>2
  <2>3. ~(b \in ToSet(queue') \/ settled'[b] # None)
    BY <1>1, <1>2 DEF disk
  <2>4. Booked' = Booked + (IF body[b] = "streaming" THEN 1 ELSE 0)
                  - (IF v = "streaming" THEN 1 ELSE 0)
    BY <1>1, <1>2, <2>1
  <2> QED
    BY <1>2, <2>1, <2>2, <2>3, <2>4, BodyActs
<1>3. CASE Arrive(b)
  BY <1>2, <1>3 DEF Arrive
<1>4. CASE BodyReserves(b) /\ FileOf[b] \in cached
  BY <1>2, <1>4 DEF BodyReserves
<1>5. CASE BodyReserves(b) /\ FileOf[b] \notin cached
  <2>1. /\ Quiet /\ body[b] = "arrived" /\ body' = [body EXCEPT ![b] = "waiting"] /\ reserve(b)
        /\ UNCHANGED <<record, table, cached, others, loop, running>>
    BY <1>5 DEF BodyReserves
  <2>2. settled[b] = None /\ b \notin ToSet(queue)
    BY <1>1, <2>1
  <2>3. DiskInv' /\ Undisturbed({b}) /\ Booked' = Booked
    BY <1>1, <2>1, <2>2, ReserveStep
  <2>4. Booked' = Booked + (IF body[b] = "streaming" THEN 1 ELSE 0)
                  - (IF "waiting" = "streaming" THEN 1 ELSE 0)
    BY <1>1, <2>1, <2>3
  <2>5. cached' \in SUBSET File
    BY <1>1, <2>1
  <2> QED
    BY <2>1, <2>3, <2>4, <2>5, BodyActs
<1>6. CASE ContinueBody(b)
  <2> DEFINE v == IF settled[b] = "granted" THEN "streaming" ELSE "idle"
  <2>1. /\ settled[b] # None /\ settled' = [settled EXCEPT ![b] = None]
        /\ body' = [body EXCEPT ![b] = v]
        /\ UNCHANGED <<record, table, cached, queue, free, pool, others, loop, running>>
    BY <1>6 DEF ContinueBody
  <2>2. /\ DiskInv' /\ Undisturbed({b}) /\ b \notin ToSet(queue) /\ settled'[b] = None
        /\ Booked' = Booked - (IF settled[b] = "granted" THEN 1 ELSE 0)
    BY <1>1, <2>1, SettleStep
  <2>3. /\ body[b] = "waiting" /\ v \in {"idle", "arrived", "waiting", "streaming"}
        /\ (v = "streaming" <=> settled[b] = "granted")
    BY <1>1, <2>1
  <2> HIDE DEF v
  <2>4. Booked' = Booked + (IF body[b] = "streaming" THEN 1 ELSE 0)
                  - (IF v = "streaming" THEN 1 ELSE 0)
    BY <1>1, <2>2, <2>3
  <2>5. cached' \in SUBSET File /\ b \notin ToSet(queue')
    BY <1>1, <2>1, <2>2
  <2> QED
    BY <2>1, <2>2, <2>3, <2>4, <2>5, BodyActs
<1>7. CASE BodyEnds(b)
  <2>1. /\ body[b] = "streaming" /\ body' = [body EXCEPT ![b] = "idle"]
        /\ cached' \in {cached, cached \cup {FileOf[b]}} /\ giveBack(1, queue, settled)
        /\ UNCHANGED <<record, table, pool, others, loop, running>>
    BY <1>7 DEF BodyEnds
  <2>2. Pooled' = Pooled /\ pool' \in [File -> {"none", "fresh", "stale"}]
    BY <1>1, <2>1 DEF Pooled, DiskInv
  <2>3. /\ DiskInv' /\ Undisturbed({})
        /\ Booked' = Booked + 1 + Cardinality(Pooled') - Cardinality(Pooled)
    BY <1>1, <2>1, <2>2, GiveBackStep
  <2>4. Booked' = Booked + (IF body[b] = "streaming" THEN 1 ELSE 0)
                  - (IF "idle" = "streaming" THEN 1 ELSE 0)
    BY <1>1, <2>1, <2>2, <2>3
  <2>5. cached' \in SUBSET File
    BY <1>1, <2>1
  <2>6. Undisturbed({b}) /\ ~(b \in ToSet(queue') \/ settled'[b] # None)
    BY <1>1, <2>1, <2>3 DEF Undisturbed
  <2> QED
    BY <2>1, <2>3, <2>4, <2>5, <2>6, BodyActs
<1> QED
  BY <1>3, <1>4, <1>5, <1>6, <1>7

----------------------------------------------------------------------------
\* The rest of the system

\* A step that leaves records and bodies alone and books what others give up
LEMMA SystemActs ==
    ASSUME Inv, DiskInv', Undisturbed({}), Booked' + others' = Booked + others,
           Booked' \in Nat, others' \in Nat, cached' \in SUBSET File,
           UNCHANGED <<record, table, body>>,
           loop' \in [op : {"none", "sweep", "shutdown"}, todo : SUBSET Task],
           running' \in BOOLEAN, loop'.op = "shutdown" => ~running'
    PROVE  Inv'
<1>1. Typed'
  BY DEF Inv, Typed, record, table
<1>2. Held' = Held /\ Streaming' = Streaming
  BY DEF Held, Streaming, record
<1>3. Conserved'
  BY <1>2, NatFacts DEF Inv, Conserved
<1>4. UNCHANGED <<status, holds, ticket, handedOff>>
  BY DEF record
<1> QED
  BY <1>1, <1>3, <1>4, OthersAct

LEMMA QueueTimeoutStep == ASSUME Inv, NEW x \in Caller, QueueTimeout(x) PROVE Inv'
<1> DEFINE s == [settled EXCEPT ![x] = "failed"]
           q == RemoveFirst(queue, x)
<1>1. /\ Quiet /\ (\E i \in DOMAIN queue : queue[i] = x) /\ giveBack(0, q, s) /\ DiskInv /\ Typed
      /\ UNCHANGED <<record, table, cached, pool, body, others, loop, running>>
  BY DEF QueueTimeout, Inv
<1>2. /\ queue \in Seq(Caller) /\ IsInjective(queue) /\ free \in Nat
      /\ settled \in [Caller -> Outcomes \cup {None}] /\ \A y \in ToSet(queue) : settled[y] = None
      /\ ToSet(queue) \subseteq Caller /\ x \in ToSet(queue)
  BY <1>1 DEF DiskInv, ToSet
<1>3. q \in Seq(Caller) /\ IsInjective(q) /\ ToSet(q) = ToSet(queue) \ {x}
  BY <1>2, RemoveFirstSet
<1>4. settled[x] # "granted" /\ "failed" \in Outcomes /\ \A y \in Caller : y # x => s[y] = settled[y]
  BY <1>2, NoneAssumption DEF Outcomes
<1>5. /\ s \in [Caller -> Outcomes \cup {None}] /\ Cardinality(Granted(settled)) \in Nat
      /\ Cardinality(Granted(s)) = Cardinality(Granted(settled)) + 0 - 0
  BY <1>2, <1>4, GrantedFacts
<1> HIDE DEF s, q
<1>6. \A y \in ToSet(q) : s[y] = None
  BY <1>2, <1>3, <1>4
<1>7. /\ queue' \in Seq(Caller) /\ IsInjective(queue') /\ ToSet(queue') \subseteq ToSet(q)
      /\ settled' \in [Caller -> Outcomes \cup {None}] /\ free' \in Nat
      /\ \A y \in ToSet(queue') : settled'[y] = None
      /\ queue' # <<>> => free' = 0
      /\ \A y \in Caller : y \notin ToSet(q) => settled'[y] = s[y]
      /\ free' + Cardinality(Granted(settled')) = free + 0 + Cardinality(Granted(s))
      /\ Cardinality(Granted(settled')) \in Nat
  BY <1>1, <1>2, <1>3, <1>5, <1>6, GiveBackFacts
<1>8. DiskInv'
  BY <1>1, <1>7 DEF DiskInv
<1>9. Undisturbed({})
  BY <1>2, <1>3, <1>4, <1>7 DEF Undisturbed
<1>10. Pooled' = Pooled
  BY <1>1 DEF Pooled
<1>11. Booked' = Booked
  BY <1>2, <1>5, <1>7, <1>10, NatFacts DEF Booked
<1>12. /\ Booked' + others' = Booked + others /\ Booked' \in Nat /\ others' \in Nat
       /\ loop'.op = "shutdown" => ~running'
  BY <1>1, <1>11, NatFacts DEF Inv
<1>13. /\ cached' \in SUBSET File /\ running' \in BOOLEAN
       /\ loop' \in [op : {"none", "sweep", "shutdown"}, todo : SUBSET Task]
  BY <1>1 DEF Typed
<1> QED
  BY <1>1, <1>8, <1>9, <1>12, <1>13, SystemActs

LEMMA PurgeStep == ASSUME Inv, Purge PROVE Inv'
<1> DEFINE stale == {f \in File : pool[f] = "stale"}
<1>1. /\ loop' = NoLoop /\ pool' = [f \in File |-> IF f \in stale THEN "none" ELSE pool[f]]
      /\ giveBack(Cardinality(stale), queue, settled) /\ DiskInv /\ Typed
      /\ UNCHANGED <<record, table, cached, body, others, running>>
  BY DEF Purge, Inv
<1>2. /\ pool' \in [File -> {"none", "fresh", "stale"}] /\ Pooled' = Pooled \ stale
      /\ Pooled \cap stale = stale /\ stale \in SUBSET Pooled
  <2>1. pool \in [File -> {"none", "fresh", "stale"}]
    BY <1>1 DEF DiskInv
  <2>2. \A f \in File : pool'[f] = IF f \in stale THEN "none" ELSE pool[f]
    BY <1>1
  <2>3. stale \in SUBSET Pooled
    BY DEF Pooled
  <2> HIDE DEF stale
  <2> QED
    BY <1>1, <2>1, <2>2, <2>3 DEF Pooled
<1> HIDE DEF stale
<1>3. IsFiniteSet(Pooled) /\ Cardinality(Pooled) \in Nat
  BY <1>1, PooledFacts
<1>4. IsFiniteSet(stale) /\ Cardinality(stale) \in Nat
  BY <1>2, <1>3, FS_Subset, FS_CardinalityType
<1>5. /\ IsFiniteSet(Pooled \ stale) /\ Cardinality(Pooled \ stale) \in Nat
      /\ Cardinality(Pooled \ stale) = Cardinality(Pooled) - Cardinality(Pooled \cap stale)
  BY <1>3, FS_Difference, FS_CardinalityType
<1>6. /\ Cardinality(Pooled') = Cardinality(Pooled) - Cardinality(stale)
      /\ Cardinality(Pooled') \in Nat
  BY <1>2, <1>5
<1>7. /\ DiskInv' /\ Undisturbed({})
      /\ Booked' = Booked + Cardinality(stale) + Cardinality(Pooled') - Cardinality(Pooled)
  BY <1>1, <1>2, <1>4, <1>6, GiveBackStep
<1>8. Booked' + others' = Booked + others /\ Booked' \in Nat /\ others' \in Nat
  BY <1>1, <1>3, <1>4, <1>6, <1>7, NatFacts
<1>9. /\ cached' \in SUBSET File /\ running' \in BOOLEAN /\ loop'.op # "shutdown"
      /\ loop' \in [op : {"none", "sweep", "shutdown"}, todo : SUBSET Task]
  BY <1>1 DEF Typed, NoLoop
<1> QED
  BY <1>1, <1>7, <1>8, <1>9, SystemActs

LEMMA SystemStep ==
    ASSUME Inv, \/ \E op \in {"sweep", "shutdown"} : StartLoop(op)
                \/ \E f \in File : Evict(f) \/ PoolEntryLapses(f)
                \/ OthersStart \/ OthersEnd
    PROVE  Inv'
<1>1. /\ Typed /\ DiskInv /\ cached \in SUBSET File /\ running \in BOOLEAN
      /\ loop \in [op : {"none", "sweep", "shutdown"}, todo : SUBSET Task]
      /\ (loop.op = "shutdown" => ~running)
  BY DEF Inv, Typed
<1>2. ASSUME NEW op \in {"sweep", "shutdown"}, StartLoop(op) PROVE Inv'
  <2>1. /\ loop' = [op |-> op, todo |-> {t \in Task : status[t] \in Statuses}]
        /\ running' = (op # "shutdown") /\ UNCHANGED <<record, table, cached, disk, body, others>>
    BY <1>2 DEF StartLoop
  <2>2. DiskInv' /\ Undisturbed({}) /\ Booked' = Booked
    BY <2>1, DiskSame
  <2>3. /\ loop' \in [op : {"none", "sweep", "shutdown"}, todo : SUBSET Task]
        /\ running' \in BOOLEAN /\ (loop'.op = "shutdown" => ~running')
    BY <2>1
  <2>4. Booked' + others' = Booked + others /\ Booked' \in Nat /\ others' \in Nat
    BY <2>1, <2>2, NatFacts
  <2> QED
    BY <1>1, <2>1, <2>2, <2>3, <2>4, SystemActs
<1>3. ASSUME NEW f \in File, Evict(f) PROVE Inv'
  <2>1. cached' = cached \ {f} /\ UNCHANGED <<record, table, disk, body, others, loop, running>>
    BY <1>3 DEF Evict
  <2>2. DiskInv' /\ Undisturbed({}) /\ Booked' = Booked
    BY <2>1, DiskSame
  <2>3. Booked' + others' = Booked + others /\ Booked' \in Nat /\ others' \in Nat
    BY <2>1, <2>2, NatFacts
  <2>4. cached' \in SUBSET File
    BY <1>1, <2>1
  <2> QED
    BY <1>1, <2>1, <2>2, <2>3, <2>4, SystemActs
<1>4. ASSUME NEW f \in File, PoolEntryLapses(f) PROVE Inv'
  <2>1. /\ pool[f] = "fresh" /\ pool' = [pool EXCEPT ![f] = "stale"]
        /\ UNCHANGED <<record, table, cached, queue, settled, free, body, others, loop, running>>
    BY <1>4 DEF PoolEntryLapses
  <2>2. Pooled' = Pooled /\ pool' \in [File -> {"none", "fresh", "stale"}]
    BY <1>1, <2>1 DEF DiskInv, Pooled
  <2>3. DiskInv' /\ Undisturbed({})
    BY <1>1, <2>1, <2>2 DEF DiskInv, Undisturbed
  <2>4. Booked' = Booked
    BY <2>1, <2>2 DEF Booked
  <2>5. Booked' + others' = Booked + others /\ Booked' \in Nat /\ others' \in Nat
    BY <2>1, <2>4, NatFacts
  <2> QED
    BY <1>1, <2>1, <2>3, <2>5, SystemActs
<1>5. CASE OthersStart
  <2>1. /\ Quiet /\ free > 0 /\ others' = others + 1 /\ free' = free - 1
        /\ UNCHANGED <<record, table, cached, queue, settled, pool, body, loop, running>>
    BY <1>5 DEF OthersStart
  <2>2. free \in Nat /\ others \in Nat /\ (queue # <<>> => free = 0)
    BY <1>1, NatFacts DEF DiskInv
  <2>3. free' \in Nat /\ queue = <<>>
    BY <2>1, <2>2
  <2>4. DiskInv' /\ Undisturbed({})
    BY <1>1, <2>1, <2>3 DEF DiskInv, Undisturbed
  <2>5. Pooled' = Pooled /\ Granted(settled') = Granted(settled)
    BY <2>1 DEF Pooled
  <2>6. Booked' = Booked - 1 /\ Booked' \in Nat
    BY <2>1, <2>2, <2>5, NatFacts DEF Booked
  <2>7. Booked' + others' = Booked + others /\ others' \in Nat
    BY <2>1, <2>2, <2>6, NatFacts
  <2> QED
    BY <1>1, <2>1, <2>4, <2>6, <2>7, SystemActs
<1>6. CASE OthersEnd
  <2>1. /\ others > 0 /\ others' = others - 1 /\ giveBack(1, queue, settled)
        /\ UNCHANGED <<record, table, cached, pool, body, loop, running>>
    BY <1>6 DEF OthersEnd
  <2>2. Pooled' = Pooled /\ pool' \in [File -> {"none", "fresh", "stale"}]
    BY <1>1, <2>1 DEF DiskInv, Pooled
  <2>3. /\ DiskInv' /\ Undisturbed({})
        /\ Booked' = Booked + 1 + Cardinality(Pooled') - Cardinality(Pooled)
    BY <1>1, <2>1, <2>2, GiveBackStep, NatFacts
  <2>4. Booked' + others' = Booked + others /\ Booked' \in Nat /\ others' \in Nat
    BY <2>1, <2>2, <2>3, NatFacts
  <2> QED
    BY <1>1, <2>1, <2>3, <2>4, SystemActs
<1> QED
  BY <1>2, <1>3, <1>4, <1>5, <1>6

\* A process that has just started: everything is free.
LEMMA FreshStart ==
    ASSUME Typed', queue' = <<>>, settled' = [x \in Caller |-> None], free' = Slots,
           pool' = [f \in File |-> "none"], holds' = [t \in Task |-> FALSE],
           ticket' = [t \in Task |-> "none"], handedOff' = [t \in Task |-> FALSE],
           body' = [b \in Body |-> "idle"], others' = 0, loop' = NoLoop
    PROVE  Inv'
<1>1. /\ Granted(settled') = {} /\ Pooled' = {} /\ Held' = {} /\ Streaming' = {}
  BY NoneAssumption DEF Granted, Pooled, Held, Streaming, Outcomes
<1>2. Conserved'
  <2>1. /\ Cardinality(Granted(settled')) = 0 /\ Cardinality(Pooled') = 0
        /\ Cardinality(Held') = 0 /\ Cardinality(Streaming') = 0
    BY <1>1, FS_EmptySet
  <2>2. Booked' = Slots
    BY <2>1, SlotsAssumption DEF Booked
  <2> QED
    BY <2>1, <2>2, SlotsAssumption DEF Conserved
<1>3. ToSet(queue') = {} /\ IsInjective(queue') /\ queue' \in Seq(Caller)
  BY DEF ToSet, IsInjective
<1>4. DiskInv'
  BY <1>3, SlotsAssumption DEF DiskInv
<1>5. \A t \in Task : TaskInv(t)'
  BY <1>3 DEF TaskInv
<1>6. \A b \in Body : BodyInv(b)'
  BY <1>3, CallerFacts DEF BodyInv
<1> QED
  BY <1>2, <1>4, <1>5, <1>6 DEF Inv, NoLoop

LEMMA RestartStep == ASSUME Inv, Restart PROVE Inv'
<1>1. PICK r \in [Task -> Statuses \cup {"absent"}], ok \in DbOutcomes :
         row' = IF ok THEN recover(r) ELSE r
  BY DEF Restart
<1>2. row' \in [Task -> Statuses \cup {"absent"}]
  BY <1>1, StatusNames DEF recover
<1>3. status' \in [Task -> Statuses \cup {"absent", "gone"}]
  BY DEF Restart
<1>4. Typed'
  BY <1>2, <1>3 DEF Restart, Inv, Typed, NoLoop
<1> QED
  BY <1>4, FreshStart DEF Restart

----------------------------------------------------------------------------
\* The invariant

LEMMA InitInv == Init => Inv
<1> SUFFICES ASSUME Init PROVE Inv
  OBVIOUS
<1>1. Granted(settled) = {} /\ Pooled = {} /\ Held = {} /\ Streaming = {}
  BY NoneAssumption DEF Init, Granted, Pooled, Held, Streaming, Outcomes
<1>2. Conserved
  <2>1. /\ Cardinality(Granted(settled)) = 0 /\ Cardinality(Pooled) = 0
        /\ Cardinality(Held) = 0 /\ Cardinality(Streaming) = 0
    BY <1>1, FS_EmptySet
  <2>2. Booked = Slots
    BY <2>1, SlotsAssumption DEF Booked, Init
  <2> QED
    BY <2>1, <2>2, SlotsAssumption DEF Conserved, Init
<1>3. ToSet(queue) = {} /\ IsInjective(queue) /\ queue \in Seq(Caller)
  BY DEF Init, ToSet, IsInjective
<1>4. DiskInv
  BY <1>3, SlotsAssumption DEF Init, DiskInv
<1>5. Typed
  BY DEF Init, Typed, NoLoop
<1>6. (\A t \in Task : TaskInv(t)) /\ (\A b \in Body : BodyInv(b)) /\ loop.op # "shutdown"
  BY <1>3, CallerFacts DEF Init, TaskInv, BodyInv, NoLoop
<1> QED
  BY <1>2, <1>4, <1>5, <1>6 DEF Inv

LEMMA StutterStep == ASSUME Inv, UNCHANGED vars PROVE Inv'
<1>1. UNCHANGED <<record, table, cached, disk, body, others, loop, running>>
  BY DEF vars
<1>2. DiskInv' /\ Undisturbed({}) /\ Booked' = Booked
  BY <1>1, DiskSame
<1>3. Booked' + others' = Booked + others /\ Booked' \in Nat /\ others' \in Nat
  BY <1>1, <1>2, NatFacts
<1>4. /\ cached' \in SUBSET File /\ running' \in BOOLEAN /\ (loop'.op = "shutdown" => ~running')
      /\ loop' \in [op : {"none", "sweep", "shutdown"}, todo : SUBSET Task]
  BY <1>1 DEF Inv, Typed
<1> QED
  BY <1>1, <1>2, <1>3, <1>4, SystemActs

LEMMA NextInv == Inv /\ [Next]_vars => Inv'
<1> SUFFICES ASSUME Inv, [Next]_vars PROVE Inv'
  OBVIOUS
<1>1. ASSUME NEW t \in Task,
             \/ CreateStreamable(t) \/ CreateDirect(t) \/ CreateQueued(t) \/ ContinueTask(t)
             \/ Refresh(t) \/ Cancel(t) \/ Visit(t)
             \/ TicketLapses(t) \/ RecordAges(t) \/ SaveLands(t) \/ RowCleanup(t)
             \/ \E b \in Body : ArriveInvited(b, t) \/ ArriveMistaken(b, t)
      PROVE  Inv'
  BY <1>1, CreateStreamableStep, CreateDirectStep, CreateQueuedStep, ContinueTaskStep,
     RefreshStep, CancelStep, VisitStep, TaskTimeStep, ArriveInvitedStep, ArriveMistakenStep
<1>2. ASSUME NEW b \in Body, Arrive(b) \/ BodyReserves(b) \/ ContinueBody(b) \/ BodyEnds(b)
      PROVE  Inv'
  BY <1>2, BodyStep
<1>3. CASE \E x \in Caller : QueueTimeout(x)
  BY <1>3, QueueTimeoutStep
<1>4. CASE \/ \E op \in {"sweep", "shutdown"} : StartLoop(op)
           \/ \E f \in File : Evict(f) \/ PoolEntryLapses(f)
           \/ OthersStart \/ OthersEnd
  BY <1>4, SystemStep
<1>5. CASE Purge \/ Restart
  BY <1>5, PurgeStep, RestartStep
<1>6. CASE UNCHANGED vars
  BY <1>6, StutterStep
<1> QED
  BY <1>1, <1>2, <1>3, <1>4, <1>5, <1>6 DEF Next

\* The inductive invariant holds in every reachable state.
THEOREM Invariant == Spec => []Inv
<1> QED
  BY InitInv, NextInv, PTL DEF Spec

\* Every variable keeps its type, no release takes the free reservations above what the
\* disk has room for, and no caller waits while there is room (pumpDisk).
THEOREM NobodyWaitsInVain == Spec => []WellFormed
<1>1. Inv => WellFormed
  <2> SUFFICES ASSUME Inv PROVE WellFormed
    OBVIOUS
  <2>1. free \in 0..Slots /\ others \in 0..Slots
    BY NatFacts DEF Inv, Conserved, Booked
  <2> QED
    BY <2>1 DEF Inv, Typed, DiskInv, WellFormed, TypeOK, NoIdleRoom
<1> QED
  BY <1>1, Invariant, PTL

\* However cancellations, expiries, hand-offs, restarts and late grants cross, every
\* reservation is free or has exactly one owner (acquireReservation, releaseResources,
\* consumeTicket).
THEOREM NoReservationIsLost == Spec => []ReservationsConserved
<1>1. Inv => ReservationsConserved
  <2> SUFFICES ASSUME Inv PROVE ReservationsConserved
    OBVIOUS
  <2>1. Slots = free + Cardinality(Granted(settled)) + Cardinality(Pooled) + others
                + Cardinality(Held) + Cardinality(Streaming)
    BY DEF Inv, Conserved, Booked
  <2>2. Slots = free + others + Cardinality(Held) + Cardinality(Pooled)
                + Cardinality(Streaming) + Cardinality(Granted(settled))
    BY <2>1, NatFacts
  <2> QED
    BY <2>2 DEF ReservationsConserved, Held, Pooled, Streaming, Granted
<1> QED
  BY <1>1, Invariant, PTL

\* A task that is over holds nothing, whatever was granted to it afterwards
\* (acquireReservation's check after its await, releaseResources).
THEOREM EndedTasksAreFree == Spec => []EndedTasksHoldNothing
<1>1. Inv => EndedTasksHoldNothing
  <2> SUFFICES ASSUME Inv, NEW t \in Task
               PROVE  /\ status[t] \in {"cancelled", "expired", "gone"} => ~holds[t] /\ ticket[t] = "none"
                      /\ status[t] \in {"cancelled", "expired"} => ~\E i \in DOMAIN queue : queue[i] = t
    BY DEF EndedTasksHoldNothing
  <2>1. (\E i \in DOMAIN queue : queue[i] = t) => t \in ToSet(queue)
    BY DEF ToSet
  <2> QED
    BY <2>1 DEF Inv, TaskInv
<1> QED
  BY <1>1, Invariant, PTL

\* A ticket that can be used stands for a reservation its task still holds
\* (issueTicket, consumeTicket).
THEOREM TicketsAreBacked == Spec => []TicketIsBacked
<1>1. Inv => TicketIsBacked
  BY DEF Inv, TaskInv, TicketIsBacked
<1> QED
  BY <1>1, Invariant, PTL

----------------------------------------------------------------------------
\* The rows of the table, when the database answers.  A save that is still on its way
\* counts as much as the row it will write.

RowInv(t) ==
    status[t] = "gone" /\ ("queued" \in saving[t] \/ row[t] = "queued") => age[t] = 2 \/ ~running

LEMMA RowKept ==
    ASSUME NEW t \in Task, RowInv(t), status'[t] = "gone" => status[t] = "gone",
           "queued" \in saving'[t] \/ row'[t] = "queued" => "queued" \in saving[t] \/ row[t] = "queued",
           age[t] = 2 => age'[t] = 2, ~running => ~running'
    PROVE  RowInv(t)'
BY DEF RowInv

\* A handler of task t that leaves it with status v and saves that
LEMMA HandlerRows ==
    ASSUME Inv, \A u \in Task : RowInv(u), NEW t \in Task, NEW v \in Statuses,
           status' = [status EXCEPT ![t] = v], persistIfChanged(t, v), UNCHANGED <<age, running>>
    PROVE  \A u \in Task : RowInv(u)'
<1>1. status'[t] # "gone" /\ \A u \in Task : u # t => status'[u] = status[u]
  BY StatusNames, StatusTypes DEF Inv
<1>2. \A u \in Task : u # t => saving'[u] = saving[u] /\ row'[u] = row[u]
  BY DEF Inv, Typed, persistIfChanged, table
<1>3. RowInv(t)'
  BY <1>1 DEF RowInv
<1>4. ASSUME NEW u \in Task, u # t PROVE RowInv(u)'
  BY <1>1, <1>2, <1>4, RowKept
<1> QED
  BY <1>3, <1>4

LEMMA RowsSame ==
    ASSUME \A u \in Task : RowInv(u), UNCHANGED <<status, table, age>>, ~running => ~running'
    PROVE  \A u \in Task : RowInv(u)'
BY RowKept DEF table

LEMMA NextRows ==
    ASSUME DbOutcomes = {TRUE}, Inv, \A u \in Task : RowInv(u), [Next]_vars
    PROVE  \A u \in Task : RowInv(u)'
<1>1. Typed
  BY DEF Inv
<1>2. ASSUME NEW t \in Task, CreateStreamable(t) \/ CreateDirect(t) \/ CreateQueued(t)
      PROVE  \A u \in Task : RowInv(u)'
  BY <1>2, StatusNames, HandlerRows DEF CreateStreamable, CreateDirect, CreateQueued
<1>3. ASSUME NEW t \in Task, ContinueTask(t) PROVE \A u \in Task : RowInv(u)'
  <2>1. CASE UNCHANGED <<status, table>>
    BY <1>3, <2>1, RowsSame DEF ContinueTask
  <2>2. CASE status' = [status EXCEPT ![t] = "streamable"] /\ persistIfChanged(t, "streamable")
    BY <1>3, <2>2, StatusNames, HandlerRows DEF ContinueTask
  <2> QED
    BY <1>3, <2>1, <2>2 DEF ContinueTask, ContinueGranted, ContinueRefused
<1>4. ASSUME NEW t \in Task, Refresh(t) PROVE \A u \in Task : RowInv(u)'
  <2>1. \E v \in Statuses : status' = [status EXCEPT ![t] = v]
    <3>1. CASE UNCHANGED status
      BY <1>1, <1>4, <3>1 DEF Refresh, Typed
    <3>2. CASE ~UNCHANGED status
      BY <1>4, <3>2, StatusNames DEF Refresh, evaluate, probed
    <3> QED
      BY <3>1, <3>2
  <2>2. PICK v \in Statuses : status' = [status EXCEPT ![t] = v]
    BY <2>1
  <2>3. status'[t] = v
    BY <1>1, <2>2, StatusTypes
  <2>4. persistIfChanged(t, v) /\ UNCHANGED <<age, running>>
    BY <1>4, <2>3 DEF Refresh
  <2> QED
    BY <2>2, <2>4, HandlerRows
<1>5. ASSUME NEW t \in Task, Cancel(t) PROVE \A u \in Task : RowInv(u)'
  BY <1>5, StatusNames, HandlerRows DEF Cancel
<1>6. ASSUME NEW t \in Task, Visit(t) PROVE \A u \in Task : RowInv(u)'
  <2>1. /\ UNCHANGED <<age, table, running>>
        /\ \A u \in Task : u # t => status'[u] = status[u]
        /\ status'[t] = "gone" => status[t] = "gone" \/ age[t] = 2 \/ ~running
    BY <1>1, <1>6 DEF Visit, sweep, Inv, Typed
  <2>2. RowInv(t)'
    BY <2>1 DEF RowInv, table
  <2>3. ASSUME NEW u \in Task, u # t PROVE RowInv(u)'
    BY <2>1, <2>3, RowKept DEF table
  <2> QED
    BY <2>2, <2>3
<1>7. ASSUME NEW t \in Task, RecordAges(t) PROVE \A u \in Task : RowInv(u)'
  <2>1. /\ UNCHANGED <<status, table, running>> /\ \A u \in Task : age[u] = 2 => age'[u] = 2
    BY <1>1, <1>7 DEF RecordAges, Typed
  <2> QED
    BY <2>1, RowKept DEF table
<1>8. ASSUME NEW t \in Task, SaveLands(t) PROVE \A u \in Task : RowInv(u)'
  <2>1. PICK s \in saving[t], ok \in DbOutcomes :
          /\ saving' = [saving EXCEPT ![t] = @ \ {s}]
          /\ row' = [row EXCEPT ![t] = IF ok THEN s ELSE @]
    BY <1>8 DEF SaveLands
  <2>2. UNCHANGED <<status, age, running>>
    BY <1>8 DEF SaveLands, record
  <2>3. \A u \in Task : "queued" \in saving'[u] \/ row'[u] = "queued" =>
                           "queued" \in saving[u] \/ row[u] = "queued"
    BY <1>1, <2>1 DEF Typed
  <2> QED
    BY <2>2, <2>3, RowKept
<1>9. ASSUME NEW t \in Task, RowCleanup(t) PROVE \A u \in Task : RowInv(u)'
  <2>1. UNCHANGED <<status, age, running, saving>> /\ \A u \in Task : row'[u] = "queued" => row[u] = "queued"
    BY <1>1, <1>9 DEF RowCleanup, record, Typed
  <2> QED
    BY <2>1, RowKept
<1>10. CASE Restart
  <2>1. PICK r \in [Task -> Statuses \cup {"absent"}], ok \in DbOutcomes :
           row' = IF ok THEN recover(r) ELSE r
    BY <1>10 DEF Restart
  <2>2. \A u \in Task : row'[u] # "queued" /\ saving'[u] = {}
    BY <1>10, <2>1 DEF Restart, recover
  <2> QED
    BY <2>2 DEF RowInv
<1>11. CASE UNCHANGED <<status, table, age>> /\ (~running => ~running')
  BY <1>11, RowsSame
<1>12. ASSUME NEW t \in Task, TicketLapses(t) \/ \E b \in Body : ArriveInvited(b, t) \/ ArriveMistaken(b, t)
       PROVE  UNCHANGED <<status, table, age, running>>
  BY <1>12 DEF TicketLapses, ArriveInvited, ArriveMistaken
<1>13. ASSUME \/ \E b \in Body : Arrive(b) \/ BodyReserves(b) \/ ContinueBody(b) \/ BodyEnds(b)
              \/ \E x \in Caller : QueueTimeout(x)
              \/ Purge
              \/ \E f \in File : Evict(f) \/ PoolEntryLapses(f)
              \/ OthersStart \/ OthersEnd
              \/ UNCHANGED vars
       PROVE  UNCHANGED <<status, table, age, running>>
  BY <1>13 DEF Arrive, BodyReserves, ContinueBody, BodyEnds, QueueTimeout, Purge, Evict,
     PoolEntryLapses, OthersStart, OthersEnd, vars, record
<1>14. ASSUME \E op \in {"sweep", "shutdown"} : StartLoop(op)
       PROVE  UNCHANGED <<status, table, age>> /\ (~running => ~running')
  BY <1>14 DEF StartLoop, record
<1> QED
  BY <1>2, <1>3, <1>4, <1>5, <1>6, <1>7, <1>8, <1>9, <1>10, <1>11, <1>12, <1>13, <1>14 DEF Next

\* With a database that answers, a restart takes over no queued row, even if saves were
\* on their way when the process ended (onModuleInit, persistIfChanged).
THEOREM RestartsAdoptNoQueuedRow ==
    ASSUME DbOutcomes = {TRUE}
    PROVE  Spec => []QueuedRowsAreOurs
<1> DEFINE Rows == \A t \in Task : RowInv(t)
<1>1. Init => Rows
  BY DEF Init, RowInv
<1>2. Inv /\ Rows /\ [Next]_vars => Rows'
  BY NextRows
<1>3. Rows => QueuedRowsAreOurs
  BY DEF RowInv, QueuedRowsAreOurs
<1> HIDE DEF Rows
<1> QED
  BY <1>1, <1>2, <1>3, Invariant, PTL DEF Spec
=============================================================================
