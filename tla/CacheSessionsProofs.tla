------------------------ MODULE CacheSessionsProofs ------------------------
(***************************************************************************)
(* Theorems about CacheSessions, for every set of requests, any number of  *)
(* sessions at a time and every sequence of versions.                      *)
(*                                                                         *)
(* Most steps end by forgetting the sessions that nothing refers to        *)
(* (Collect).  The invariant is therefore stated for any function f from   *)
(* sessions to their records: a step is shown to keep it for the sessions  *)
(* as the handler leaves them, and one lemma shows that forgetting keeps   *)
(* it for those that remain.                                               *)
(***************************************************************************)
EXTENDS CacheSessions, QueueLemmas

States == {"new", "fetch", "copy", "check", "clean", "ended", "gone"}
SesSet == [kind : {"build", "spool"}, ver : Versions, st : States,
           bytes : Nat, err : BOOLEAN, done : BOOLEAN, file : BOOLEAN]
ReqSet == [pc : Pcs, mode : {"full", "range", "nocache"}, want : Versions,
           on : Session \cup {NoSession}, off : Nat]

\* The types of the variables other than ses and leases
DataOK ==
    /\ version \in Versions /\ cache \in Keys
    /\ build \in Session \cup {NoSession} /\ spool \in Session \cup {NoSession}
    /\ locks \in [Keys -> Seq(Request)]
    /\ req \in [Request -> ReqSet]
    /\ listening \subseteq Request
    /\ inv \in [pc : {"idle", "owed", "settle", "drain", "unlink", "temps"},
                target : Session \cup {NoSession}]
    /\ raced \in BOOLEAN

RunningIn(f) == {s \in Session : f[s].st \notin {"ended", "gone"}}
HeldBy(lk, r) == lk[0] # <<>> /\ Head(lk[0]) = r

\* What a session s keeps, when b and sp are the registered sessions and v is the
\* current version.
SesInv(f, b, sp, v, s) ==
    /\ f[s].ver <= v
    /\ f[s].st = "clean" => f[s].err
    /\ f[s].st \notin {"ended", "gone"} => ~f[s].done
    /\ f[s].st \in {"ended", "gone"} =>
          /\ f[s].err \/ f[s].done \/ f[s] = GoneSession
          /\ f[s].kind = "build" => ~f[s].file
    /\ f[s].st \notin {"ended", "gone"} /\ ~f[s].err =>
          IF f[s].kind = "build" THEN b = s ELSE sp = s

RefInv(f, b, sp) ==
    /\ b # NoSession => f[b].kind = "build" /\ f[b].st # "gone"
    /\ sp # NoSession => f[sp].kind = "spool"

\* What a request r keeps.  Under the lock of the spools no other spool appears; a
\* session that r refers to is not forgotten; and whoever listens is told.
ReqInv(f, sp, rq, li, lk, v, r) ==
    /\ rq[r].want <= v
    /\ rq[r].pc \in {"readable", "stream", "sstat"} =>
          rq[r].on \in Session /\ f[rq[r].on] # GoneSession
    /\ rq[r].pc \in {"sstat", "sadmit"} => HeldBy(lk, r)
    /\ rq[r].pc = "sadmit" => sp = NoSession
    /\ rq[r].pc = "sstat" => sp = NoSession \/ sp = rq[r].on
    /\ r \in li => /\ rq[r].pc \in {"readable", "stream"}
                   /\ rq[r].on \in RunningIn(f)
                   /\ rq[r].off >= f[rq[r].on].bytes
                   /\ f[rq[r].on].err => f[rq[r].on].st = "clean"

\* A build that can still put its file at the cache path
CanPublish(x) ==
    /\ x.kind = "build" /\ x.st \in {"new", "fetch", "copy", "check"}
    /\ x.err => x.st = "check"

\* Unless a build got past the invalidation: only the registered build can publish,
\* between two invalidations it has the current version, and from the moment the
\* build has settled until the fence falls there is none, nor a spool.
CacheInv(f, b, sp, v, c, i, rc) ==
    /\ i.pc \in {"drain", "unlink", "temps"} => sp = NoSession
    /\ ~rc =>
          /\ \A s \in Session : CanPublish(f[s]) => b = s
          /\ i.pc = "idle" =>
                /\ c # 0 => c = v
                /\ b # NoSession /\ CanPublish(f[b]) => f[b].ver = v
          /\ i.pc = "settle" => b = NoSession \/ b = i.target
          /\ i.pc \in {"drain", "unlink", "temps"} => b = NoSession
          /\ i.pc = "temps" => c = 0

Inv ==
    /\ DataOK
    /\ ses \in [Session -> SesSet]
    /\ leases = Cardinality(RunningIn(ses))
    /\ RefInv(ses, build, spool)
    /\ \A s \in Session : SesInv(ses, build, spool, version, s)
    /\ \A r \in Request : ReqInv(ses, spool, req, listening, locks, version, r)
    /\ CacheInv(ses, build, spool, version, cache, inv, raced)

----------------------------------------------------------------------------
\* Lemmas on the operators

\* Leaving the queues of the locks keeps whoever else holds one.
LEMMA UnlockFacts ==
    ASSUME locks \in [Keys -> Seq(Request)], NEW r \in Request
    PROVE  /\ Unlock(r) \in [Keys -> Seq(Request)]
           /\ \A u \in Request : u # r /\ HeldBy(locks, u) => HeldBy(Unlock(r), u)
<1>1. 0 \in Keys /\ locks[0] \in Seq(Request)
  BY DEF Keys
<1>2. \A k \in Keys : Unlock(r)[k] = RemoveFirst(locks[k], r)
  BY DEF Unlock
<1>3. Unlock(r) \in [Keys -> Seq(Request)]
  BY RemoveFirstFacts DEF Unlock
<1> QED
  BY <1>1, <1>2, <1>3, RemoveFirstFacts DEF HeldBy

LEMMA QueueFacts ==
    ASSUME locks \in [Keys -> Seq(Request)], NEW r \in Request, NEW k \in Keys
    PROVE  LET lk == [locks EXCEPT ![k] = Append(@, r)] IN
           /\ lk \in [Keys -> Seq(Request)]
           /\ \A u \in Request : HeldBy(locks, u) => HeldBy(lk, u)
<1> DEFINE lk == [locks EXCEPT ![k] = Append(@, r)]
<1>1. \A j \in Keys : locks[j] \in Seq(Request)
  OBVIOUS
<1>2. Append(locks[k], r) \in Seq(Request)
  BY <1>1
<1>3. lk \in [Keys -> Seq(Request)]
  BY <1>2
<1>4. 0 \in Keys
  BY DEF Keys
<1>5. \A q \in Seq(Request) : q # <<>> => Append(q, r) # <<>> /\ Head(Append(q, r)) = Head(q)
  OBVIOUS
<1>6. \A u \in Request : HeldBy(locks, u) => HeldBy(lk, u)
  BY <1>1, <1>4, <1>5 DEF HeldBy
<1> QED
  BY <1>3, <1>6

\* The constants: versions are 1, 2, ...; a forgotten session and an idle request
\* have their types.
LEMMA ConstantFacts ==
    /\ Versions \subseteq Nat \ {0} /\ 1 \in Versions /\ 0 \notin Versions
    /\ GoneSession \in SesSet /\ OverRequest \in ReqSet
<1>1. Versions = 1..Len(SizeOf) /\ Len(SizeOf) \in Nat /\ Len(SizeOf) # 0
  BY SizeAssumption DEF Versions
<1>2. Versions \subseteq Nat \ {0} /\ 1 \in Versions /\ 0 \notin Versions
  BY <1>1
<1> QED
  BY <1>2 DEF GoneSession, SesSet, States, OverRequest, ReqSet, Pcs

\* How a request moves
LEMMA MoveFacts ==
    ASSUME req \in [Request -> ReqSet], NEW r \in Request
    PROVE  /\ \A p \in Pcs : /\ Moves(r, p) \in [Request -> ReqSet]
                             /\ Moves(r, p)[r].pc = p /\ Moves(r, p)[r].on = req[r].on
                             /\ Moves(r, p)[r].want = req[r].want
                             /\ Moves(r, p)[r].off = req[r].off
                             /\ \A u \in Request : u # r => Moves(r, p)[u] = req[u]
           /\ \A p \in Pcs, s \in Session \cup {NoSession} :
                 /\ MovesOn(r, p, s) \in [Request -> ReqSet]
                 /\ MovesOn(r, p, s)[r].pc = p /\ MovesOn(r, p, s)[r].on = s
                 /\ MovesOn(r, p, s)[r].want = req[r].want
                 /\ MovesOn(r, p, s)[r].off = req[r].off
                 /\ \A u \in Request : u # r => MovesOn(r, p, s)[u] = req[u]
           /\ \A s \in Session \cup {NoSession} :
                 /\ Follows(r, s) \in [Request -> ReqSet]
                 /\ Follows(r, s)[r].pc = "stream" /\ Follows(r, s)[r].on = s
                 /\ Follows(r, s)[r].want = 1 /\ Follows(r, s)[r].off = 0
                 /\ \A u \in Request : u # r => Follows(r, s)[u] = req[u]
           /\ Ends(r) \in [Request -> ReqSet]
           /\ Ends(r)[r] = OverRequest
           /\ \A u \in Request : u # r => Ends(r)[u] = req[u]
<1>1. ASSUME NEW p \in Pcs
      PROVE  /\ Moves(r, p) \in [Request -> ReqSet]
             /\ Moves(r, p)[r].pc = p /\ Moves(r, p)[r].on = req[r].on
             /\ Moves(r, p)[r].want = req[r].want
             /\ Moves(r, p)[r].off = req[r].off
             /\ \A u \in Request : u # r => Moves(r, p)[u] = req[u]
  BY DEF Moves, ReqSet
<1>2. ASSUME NEW p \in Pcs, NEW s \in Session \cup {NoSession}
      PROVE  /\ MovesOn(r, p, s) \in [Request -> ReqSet]
             /\ MovesOn(r, p, s)[r].pc = p /\ MovesOn(r, p, s)[r].on = s
             /\ MovesOn(r, p, s)[r].want = req[r].want
             /\ MovesOn(r, p, s)[r].off = req[r].off
             /\ \A u \in Request : u # r => MovesOn(r, p, s)[u] = req[u]
  BY DEF MovesOn, ReqSet
<1>3. ASSUME NEW s \in Session \cup {NoSession}
      PROVE  /\ Follows(r, s) \in [Request -> ReqSet]
             /\ Follows(r, s)[r].pc = "stream" /\ Follows(r, s)[r].on = s
             /\ Follows(r, s)[r].want = 1 /\ Follows(r, s)[r].off = 0
             /\ \A u \in Request : u # r => Follows(r, s)[u] = req[u]
  <2>1. /\ [OverRequest EXCEPT !.pc = "stream", !.on = s] \in ReqSet
        /\ [OverRequest EXCEPT !.pc = "stream", !.on = s].pc = "stream"
        /\ [OverRequest EXCEPT !.pc = "stream", !.on = s].on = s
        /\ [OverRequest EXCEPT !.pc = "stream", !.on = s].want = 1
        /\ [OverRequest EXCEPT !.pc = "stream", !.on = s].off = 0
    BY ConstantFacts DEF OverRequest, ReqSet, Pcs
  <2> QED
    BY <2>1 DEF Follows
<1>4. Ends(r) \in [Request -> ReqSet] /\ Ends(r)[r] = OverRequest
      /\ \A u \in Request : u # r => Ends(r)[u] = req[u]
  BY ConstantFacts DEF Ends
<1> QED
  BY <1>1, <1>2, <1>3, <1>4

----------------------------------------------------------------------------
\* What a step has to establish for the sessions f it leaves

Leads(f) ==
    /\ DataOK'
    /\ f \in [Session -> SesSet]
    /\ leases' = Cardinality(RunningIn(f))
    /\ RefInv(f, build', spool')
    /\ \A s \in Session : SesInv(f, build', spool', version', s)
    /\ \A r \in Request : ReqInv(f, spool', req', listening', locks', version', r)
    /\ CacheInv(f, build', spool', version', cache', inv', raced')

LEMMA PlainKeeps == ASSUME NEW f, Leads(f), ses' = f PROVE Inv'
BY DEF Leads, Inv, RefInv, SesInv, ReqInv, CacheInv, DataOK, RunningIn, HeldBy, CanPublish

\* Forgetting a session that is over and that nothing refers to changes nothing.
LEMMA CollectKeeps == ASSUME NEW f, Leads(f), ses' = Collect(f) PROVE Inv'
<1> USE ConstantFacts
<1>1. \A s \in Session :
         \/ ses'[s] = f[s]
         \/ /\ f[s].st = "gone" /\ ses'[s] = GoneSession
            /\ s # build' /\ s # spool' /\ \A r \in Request : req'[r].on # s
  BY DEF Collect
<1>2. ses' \in [Session -> SesSet]
  BY DEF Collect, Leads
<1>3. /\ GoneSession.st = "gone" /\ GoneSession.ver = 1 /\ ~GoneSession.file
      /\ GoneSession.kind = "build"
  BY DEF GoneSession
<1>4. RunningIn(ses') = RunningIn(f)
  BY <1>1, <1>3 DEF RunningIn
<1>5. RefInv(ses', build', spool')
  BY <1>1 DEF Leads, RefInv, DataOK
<1>6. \A s \in Session : SesInv(ses', build', spool', version', s)
  <2> SUFFICES ASSUME NEW s \in Session PROVE SesInv(ses', build', spool', version', s)
    OBVIOUS
  <2>1. CASE ses'[s] = f[s]
    BY <2>1 DEF Leads, SesInv
  <2>2. CASE ses'[s] = GoneSession
    BY <1>3, <2>2 DEF Leads, SesInv, DataOK
  <2> QED
    BY <1>1, <2>1, <2>2
<1>7. \A r \in Request : ReqInv(ses', spool', req', listening', locks', version', r)
  <2> SUFFICES ASSUME NEW r \in Request
               PROVE  ReqInv(ses', spool', req', listening', locks', version', r)
    OBVIOUS
  <2>1. req'[r].on \in Session => ses'[req'[r].on] = f[req'[r].on]
    BY <1>1
  <2> QED
    BY <1>4, <2>1 DEF Leads, ReqInv, RunningIn
<1>8. CacheInv(ses', build', spool', version', cache', inv', raced')
  <2>1. \A s \in Session : CanPublish(ses'[s]) => ses'[s] = f[s]
    BY <1>1, <1>3 DEF CanPublish
  <2>2. build' \in Session => ses'[build'] = f[build']
    BY <1>1
  <2> QED
    BY <2>1, <2>2 DEF Leads, CacheInv, DataOK
<1> QED
  BY <1>2, <1>4, <1>5, <1>6, <1>7, <1>8
     DEF Leads, Inv, RefInv, SesInv, ReqInv, CacheInv, DataOK, HeldBy, CanPublish, RunningIn

\* A request that does not move itself
LEMMA Bystander ==
    ASSUME Inv, DataOK', NEW f, NEW u \in Request,
           req'[u] = req[u], version <= version',
           HeldBy(locks, u) => HeldBy(locks', u),
           spool' = spool \/ spool' = NoSession \/ ~HeldBy(locks, u),
           \A s \in Session : ses[s] # GoneSession => f[s] # GoneSession,
           u \in listening' =>
              /\ u \in listening
              /\ \/ f[req[u].on] = ses[req[u].on]
                 \/ /\ f[req[u].on].st \notin {"ended", "gone"}
                    /\ f[req[u].on].bytes = ses[req[u].on].bytes
                    /\ f[req[u].on].err => f[req[u].on].st = "clean"
    PROVE  ReqInv(f, spool', req', listening', locks', version', u)
<1>1. ReqInv(ses, spool, req, listening, locks, version, u)
  BY DEF Inv
<1>2. req[u].want <= version'
  <2>1. req[u].want \in Nat /\ version \in Nat /\ version' \in Nat
    BY ConstantFacts DEF Inv, DataOK, ReqSet
  <2> QED
    BY <1>1, <2>1 DEF ReqInv
<1> QED
  BY <1>1, <1>2 DEF ReqInv, RunningIn

\* A step of request r that leaves the sessions alone
LEMMA RequestOnly ==
    ASSUME Inv, NEW r \in Request, DataOK',
           UNCHANGED <<version, build, spool, leases, inv, raced>>,
           cache' = cache \/ cache' = 0,
           \A u \in Request : u # r =>
              /\ req'[u] = req[u] /\ (u \in listening' => u \in listening)
              /\ HeldBy(locks, u) => HeldBy(locks', u),
           ReqInv(ses, spool, req', listening', locks', version, r)
    PROVE  Leads(ses)
<1>0. version \in Nat
  BY ConstantFacts DEF Inv, DataOK
<1>1. \A u \in Request : ReqInv(ses, spool', req', listening', locks', version', u)
  <2> SUFFICES ASSUME NEW u \in Request, u # r
               PROVE  ReqInv(ses, spool', req', listening', locks', version', u)
    OBVIOUS
  <2> QED
    BY <1>0, Bystander
<1>2. CacheInv(ses, build', spool', version', cache', inv', raced')
  BY DEF Inv, CacheInv
<1> QED
  BY <1>1, <1>2 DEF Inv, Leads

----------------------------------------------------------------------------
\* Requests

\* A request that leaves gives its place in every queue back.
LEMMA RefuseStep == ASSUME Inv, NEW r \in Request, Refuse(r) PROVE Inv'
<1>1. /\ req' = Ends(r) /\ locks' = Unlock(r) /\ listening' = listening \ {r}
      /\ UNCHANGED <<version, cache, build, spool, leases, inv, raced>> /\ ses' = Collect(ses)
  BY DEF Refuse, Leaves
<1>2. DataOK' /\ \A u \in Request : u # r => req'[u] = req[u] /\ (HeldBy(locks, u) => HeldBy(locks', u))
  BY <1>1, MoveFacts, UnlockFacts DEF Inv, DataOK
<1>3. ReqInv(ses, spool, req', listening', locks', version, r)
  <2>1. req'[r] = OverRequest
    BY <1>1, MoveFacts DEF Inv, DataOK
  <2> QED
    BY <1>1, <2>1, ConstantFacts DEF Inv, DataOK, ReqInv, OverRequest
<1>4. Leads(ses)
  BY <1>1, <1>2, <1>3, RequestOnly
<1> QED
  BY <1>1, <1>4, CollectKeeps

LEMMA RefusedSteps ==
    ASSUME Inv, NEW r \in Request,
           \/ EnterRefused(r) \/ AbortRefused(r) \/ LockRefused(r) \/ AdmitRefused(r)
           \/ Disconnect(r)
    PROVE  Inv'
BY RefuseStep DEF EnterRefused, AbortRefused, LockRefused, AdmitRefused, Disconnect

\* A request that joins the queue of a session lock
LEMMA QueueStep ==
    ASSUME Inv, NEW r \in Request, NEW k \in Keys, NEW p \in {"lock", "slock"}, Queue(r, k, p),
           r \notin listening, UNCHANGED <<version, build, spool, leases, inv, raced>>,
           cache' = cache \/ cache' = 0, ses' = ses \/ ses' = Collect(ses)
    PROVE  Inv'
<1>1. /\ req' = MovesOn(r, p, NoSession) /\ listening' = listening
      /\ locks' = [locks EXCEPT ![k] = Append(@, r)]
  BY DEF Queue, MovesOn
<1>2. p \in Pcs /\ 0 \in Keys
  BY DEF Pcs, Keys
<1>3. DataOK' /\ \A u \in Request : u # r => req'[u] = req[u] /\ (HeldBy(locks, u) => HeldBy(locks', u))
  <2>0. locks \in [Keys -> Seq(Request)] /\ req \in [Request -> ReqSet]
    BY DEF Inv, DataOK
  <2>1. locks' \in [Keys -> Seq(Request)] /\ \A u \in Request : HeldBy(locks, u) => HeldBy(locks', u)
    BY <1>1, <2>0, QueueFacts
  <2>2. req' \in [Request -> ReqSet] /\ \A u \in Request : u # r => req'[u] = req[u]
    BY <1>1, <1>2, <2>0, MoveFacts
  <2>3. DataOK'
    BY <1>1, <1>2, <2>1, <2>2 DEF Inv, DataOK
  <2> QED
    BY <2>1, <2>2, <2>3
<1>4. ReqInv(ses, spool, req', listening', locks', version, r)
  <2>1. req'[r].pc = p /\ req'[r].want = req[r].want
    BY <1>1, <1>2, MoveFacts DEF Inv, DataOK
  <2> QED
    BY <1>1, <2>1 DEF Inv, ReqInv
<1>5. Leads(ses)
  BY <1>1, <1>3, <1>4, RequestOnly
<1> QED
  BY <1>5, CollectKeeps, PlainKeeps

LEMMA LookupFacts == ASSUME NEW r \in Request PROVE CacheAfterLookup(r) \in {cache, 0}
BY DEF CacheAfterLookup

\* A listening request only waits.
LEMMA ListeningWaits ==
    ASSUME Inv, NEW r \in Request, req[r].pc \notin {"readable", "stream"}
    PROVE  r \notin listening
BY DEF Inv, ReqInv

LEMMA WantIsKey == ASSUME Inv, NEW r \in Request PROVE req[r].want \in Keys /\ 0 \in Keys
BY DEF Inv, DataOK, ReqSet, Keys

\* The requests that move without changing a session
LEMMA QuietRequestStep ==
    ASSUME Inv, NEW r \in Request, NEW rq,
           r \notin listening, listening' = listening \/ listening' = listening \cup {r}, req' = rq,
           rq \in [Request -> ReqSet], \A u \in Request : u # r => rq[u] = req[u],
           locks' = locks \/ locks' = Unlock(r),
           UNCHANGED <<version, build, spool, leases, inv, raced>>,
           cache' = cache \/ cache' = 0, ses' = ses \/ ses' = Collect(ses),
           ReqInv(ses, spool, rq, listening', locks', version, r)
    PROVE  Inv'
<1>1. /\ locks' \in [Keys -> Seq(Request)]
      /\ \A u \in Request : u # r => (HeldBy(locks, u) => HeldBy(locks', u))
  BY UnlockFacts DEF Inv, DataOK
<1>2. DataOK'
  BY <1>1 DEF Inv, DataOK, Keys
<1>3. Leads(ses)
  BY <1>1, <1>2, RequestOnly
<1> QED
  BY <1>3, CollectKeeps, PlainKeeps

LEMMA ReadMetadataStep == ASSUME Inv, NEW r \in Request, ReadMetadata(r) PROVE Inv'
<1>1. PICK m \in Modes[r] :
         req' = [req EXCEPT ![r] = [OverRequest EXCEPT !.pc = "meta", !.mode = m, !.want = version]]
  BY DEF ReadMetadata
<1> DEFINE x == [OverRequest EXCEPT !.pc = "meta", !.mode = m, !.want = version]
<1>2. x \in ReqSet /\ x.pc = "meta" /\ x.want = version
  <2>1. m \in {"full", "range", "nocache"} /\ version \in Versions
    BY ModesAssumption DEF Inv, DataOK
  <2> QED
    BY <2>1, ConstantFacts DEF OverRequest, ReqSet, Pcs
<1> HIDE DEF x
<1>3. req' = [req EXCEPT ![r] = x]
  BY <1>1 DEF x
<1>4. /\ req' \in [Request -> ReqSet] /\ req'[r] = x
      /\ \A u \in Request : u # r => req'[u] = req[u]
  BY <1>2, <1>3 DEF Inv, DataOK
<1>5. r \notin listening
  BY ListeningWaits DEF ReadMetadata, At
<1>6. ReqInv(ses, spool, req', listening, locks, version, r)
  BY <1>2, <1>4, <1>5, ConstantFacts DEF Inv, DataOK, ReqInv
<1> QED
  BY <1>4, <1>5, <1>6, QuietRequestStep DEF ReadMetadata

\* What each quiet move leaves the request with
LEMMA QuietMoves ==
    ASSUME Inv, NEW r \in Request, r \notin listening, NEW lk
    PROVE  /\ ReqInv(ses, spool, Ends(r), listening, lk, version, r)
           /\ \A s \in Session : ses[s] # GoneSession =>
                 ReqInv(ses, spool, Follows(r, s), listening, lk, version, r)
           /\ \A s \in Session : ses[s] # GoneSession =>
                 ReqInv(ses, spool, MovesOn(r, "readable", s), listening, lk, version, r)
           /\ \A p \in {"admit", "abort"} : \A s \in Session \cup {NoSession} :
                 /\ ReqInv(ses, spool, Moves(r, p), listening, lk, version, r)
                 /\ ReqInv(ses, spool, MovesOn(r, p, s), listening, lk, version, r)
<1>a. req \in [Request -> ReqSet] /\ 1 <= version /\ req[r].want <= version
  BY ConstantFacts DEF Inv, DataOK, ReqInv
<1>b. "admit" \in Pcs /\ "abort" \in Pcs /\ "readable" \in Pcs
  BY DEF Pcs
<1>1. ReqInv(ses, spool, Ends(r), listening, lk, version, r)
  BY <1>a, MoveFacts DEF ReqInv, OverRequest
<1>2. ASSUME NEW s \in Session, ses[s] # GoneSession
      PROVE  ReqInv(ses, spool, Follows(r, s), listening, lk, version, r)
  BY <1>a, <1>2, MoveFacts DEF ReqInv
<1>3. ASSUME NEW s \in Session, ses[s] # GoneSession
      PROVE  ReqInv(ses, spool, MovesOn(r, "readable", s), listening, lk, version, r)
  BY <1>a, <1>b, <1>3, MoveFacts DEF ReqInv
<1>4. ASSUME NEW p \in {"admit", "abort"}, NEW s \in Session \cup {NoSession}
      PROVE  /\ ReqInv(ses, spool, Moves(r, p), listening, lk, version, r)
             /\ ReqInv(ses, spool, MovesOn(r, p, s), listening, lk, version, r)
  BY <1>a, <1>b, MoveFacts DEF ReqInv
<1> QED
  BY <1>1, <1>2, <1>3, <1>4

\* The registered sessions have not been forgotten.
LEMMA RegisteredExists ==
    ASSUME Inv
    PROVE  /\ build # NoSession => build \in Session /\ ses[build] # GoneSession
           /\ spool # NoSession => spool \in Session /\ ses[spool] # GoneSession
BY DEF Inv, DataOK, RefInv, GoneSession

LEMMA LockedStep == ASSUME Inv, NEW r \in Request, Locked(r) PROVE Inv'
<1>1. r \notin listening
  BY ListeningWaits DEF Locked, At
<1>2. req \in [Request -> ReqSet] /\ (BuildFor(r) => build \in Session /\ ses[build] # GoneSession)
  BY RegisteredExists DEF Inv, DataOK, BuildFor
<1>3. "readable" \in Pcs /\ "admit" \in Pcs
  BY DEF Pcs
<1>4. \/ req' = Ends(r)
      \/ BuildFor(r) /\ req' = MovesOn(r, "readable", build)
      \/ BuildFor(r) /\ req' = Follows(r, build)
      \/ req' = Moves(r, "admit")
  BY DEF Locked
<1>5. /\ listening' = listening /\ UNCHANGED <<version, build, spool, leases, inv, raced, ses>>
      /\ cache' = CacheAfterLookup(r) /\ (locks' = locks \/ locks' = Unlock(r))
  BY DEF Locked
<1>6. req' \in [Request -> ReqSet] /\ \A u \in Request : u # r => req'[u] = req[u]
  BY <1>2, <1>3, <1>4, MoveFacts
<1>7. ReqInv(ses, spool, req', listening', locks', version, r)
  BY <1>1, <1>2, <1>4, <1>5, QuietMoves
<1> QED
  BY <1>1, <1>5, <1>6, <1>7, LookupFacts, QuietRequestStep

LEMMA AbortSettledStep == ASSUME Inv, NEW r \in Request, AbortSettled(r) PROVE Inv'
<1>1. r \notin listening
  BY ListeningWaits DEF AbortSettled, At
<1> QED
  BY <1>1, WantIsKey, QueueStep DEF AbortSettled

LEMMA AdmitTooLargeStep == ASSUME Inv, NEW r \in Request, AdmitTooLarge(r) PROVE Inv'
<1>1. r \notin listening
  BY ListeningWaits DEF AdmitTooLarge, At
<1> QED
  BY <1>1, WantIsKey, QueueStep DEF AdmitTooLarge

LEMMA ReadableStep == ASSUME Inv, NEW r \in Request, Readable(r) PROVE Inv'
<1> DEFINE s == req[r].on
<1>1. /\ req[r].pc = "readable" /\ r \notin listening
      /\ UNCHANGED <<version, cache, build, spool, leases, inv, raced>> /\ ses' = Collect(ses)
  BY DEF Readable, At
<1>2. s \in Session /\ ses[s] # GoneSession /\ req \in [Request -> ReqSet]
  BY <1>1 DEF Inv, DataOK, ReqInv
<1>3. CASE Leaves(r)
  BY <1>1, <1>3, RefuseStep DEF Refuse
<1>4. CASE req' = Follows(r, s) /\ locks' = Unlock(r) /\ UNCHANGED listening
  <2>1. Follows(r, s) \in [Request -> ReqSet] /\ \A u \in Request : u # r => Follows(r, s)[u] = req[u]
    BY <1>2, MoveFacts
  <2>2. ReqInv(ses, spool, Follows(r, s), listening, locks', version, r)
    BY <1>1, <1>2, QuietMoves
  <2> QED
    BY <1>1, <1>4, <2>1, <2>2, QuietRequestStep
<1>5. CASE /\ ~ses[s].err /\ ses[s].bytes = 0 /\ ~ses[s].done
           /\ listening' = listening \cup {r} /\ UNCHANGED <<req, locks>>
  <2>1. s \in RunningIn(ses)
    BY <1>2, <1>5 DEF Inv, SesInv, RunningIn, SesSet
  <2>2. req[r].off \in Nat
    BY <1>2 DEF ReqSet
  <2>3. ReqInv(ses, spool, req, listening', locks, version, r)
    BY <1>1, <1>2, <1>5, <2>1, <2>2 DEF Inv, ReqInv
  <2> QED
    BY <1>1, <1>2, <1>5, <2>3, QuietRequestStep
<1> QED
  BY <1>3, <1>4, <1>5 DEF Readable

LEMMA PumpStep == ASSUME Inv, NEW r \in Request, Pump(r) PROVE Inv'
<1> DEFINE s == req[r].on
<1>1. /\ req[r].pc = "stream" /\ r \notin listening
      /\ UNCHANGED <<version, cache, build, spool, leases, inv, raced>> /\ ses' = Collect(ses)
  BY DEF Pump, At
<1>2. s \in Session /\ ses[s] # GoneSession /\ req \in [Request -> ReqSet]
  BY <1>1 DEF Inv, DataOK, ReqInv
<1>3. CASE Leaves(r)
  BY <1>1, <1>3, RefuseStep DEF Refuse
<1>4. CASE req' = [req EXCEPT ![r].off = req[r].off + 1] /\ UNCHANGED <<listening, locks>>
  <2>1. /\ req' \in [Request -> ReqSet] /\ \A u \in Request : u # r => req'[u] = req[u]
        /\ req'[r].pc = req[r].pc /\ req'[r].on = req[r].on /\ req'[r].want = req[r].want
    BY <1>2, <1>4 DEF ReqSet
  <2>2. ReqInv(ses, spool, req', listening, locks, version, r)
    BY <1>1, <2>1 DEF Inv, ReqInv
  <2> QED
    BY <1>1, <1>4, <2>1, <2>2, QuietRequestStep
<1>5. CASE /\ ~ses[s].err /\ req[r].off >= ses[s].bytes /\ ~ses[s].done
           /\ listening' = listening \cup {r} /\ UNCHANGED <<req, locks>>
  <2>1. s \in RunningIn(ses)
    BY <1>2, <1>5 DEF Inv, SesInv, RunningIn, SesSet
  <2>2. ReqInv(ses, spool, req, listening', locks, version, r)
    BY <1>1, <1>2, <1>5, <2>1 DEF Inv, ReqInv
  <2> QED
    BY <1>1, <1>2, <1>5, <2>2, QuietRequestStep
<1> QED
  BY <1>3, <1>4, <1>5 DEF Pump

----------------------------------------------------------------------------
\* Sessions

\* The number of running sessions when one of them changes
LEMMA RunningAfter ==
    ASSUME Inv, NEW s \in Session, NEW x \in SesSet
    PROVE  LET f == [ses EXCEPT ![s] = x] IN
           Cardinality(RunningIn(f)) =
              IF x.st \in {"ended", "gone"}
              THEN IF ses[s].st \in {"ended", "gone"} THEN leases ELSE leases - 1
              ELSE IF ses[s].st \in {"ended", "gone"} THEN leases + 1 ELSE leases
<1> DEFINE f == [ses EXCEPT ![s] = x]
<1>1. leases = Cardinality(RunningIn(ses)) /\ ses \in [Session -> SesSet]
  BY DEF Inv
<1>2. IsFiniteSet(RunningIn(ses))
  BY SessionAssumption, FS_Subset DEF RunningIn
<1>3. f[s] = x /\ \A t \in Session : t # s => f[t] = ses[t]
  BY <1>1
<1> HIDE DEF f
<1>4. CASE x.st \in {"ended", "gone"}
  <2>1. RunningIn(f) = RunningIn(ses) \ {s}
    BY <1>3, <1>4 DEF RunningIn
  <2>2. s \in RunningIn(ses) <=> ses[s].st \notin {"ended", "gone"}
    BY DEF RunningIn
  <2> QED
    BY <1>1, <1>2, <1>4, <2>1, <2>2, FS_RemoveElement DEF f
<1>5. CASE x.st \notin {"ended", "gone"}
  <2>1. RunningIn(f) = RunningIn(ses) \cup {s}
    BY <1>3, <1>5 DEF RunningIn
  <2>2. s \in RunningIn(ses) <=> ses[s].st \notin {"ended", "gone"}
    BY DEF RunningIn
  <2> QED
    BY <1>1, <1>2, <1>5, <2>1, <2>2, FS_AddElement DEF f
<1> QED
  BY <1>4, <1>5

\* What session s may become: x stays the same kind and version, says so if it has
\* failed, and does not come back once it is over.
Becomes(s, x) ==
    /\ x \in SesSet /\ x.kind = ses[s].kind /\ x.ver = ses[s].ver
    /\ x.st = "clean" => x.err
    /\ IF x.st \in {"ended", "gone"}
       THEN (x.err \/ x.done) /\ (x.kind = "build" => ~x.file)
       ELSE ~x.done /\ ses[s].st \notin {"ended", "gone"} /\ (ses[s].err => x.err)
    /\ \/ build' = build /\ (build = s => x.st # "gone")
       \/ build = s /\ build' = NoSession /\ x.st = "gone"
    /\ \/ spool' = spool
       \/ spool = s /\ spool' = NoSession /\ (x.err \/ x.st = "gone")
    /\ leases' = IF x.st \in {"ended", "gone"} /\ ses[s].st \notin {"ended", "gone"}
                 THEN leases - 1 ELSE leases
    /\ CanPublish(x) => CanPublish(ses[s])

LEMMA SessionsAfter ==
    ASSUME Inv, NEW s \in Session, NEW x, Becomes(s, x), version' = version
    PROVE  LET f == [ses EXCEPT ![s] = x] IN
           /\ f \in [Session -> SesSet] /\ f[s] = x /\ f[s] # GoneSession
           /\ \A t \in Session : t # s => f[t] = ses[t]
           /\ leases' = Cardinality(RunningIn(f))
           /\ RefInv(f, build', spool')
           /\ \A t \in Session : SesInv(f, build', spool', version', t)
<1> DEFINE f == [ses EXCEPT ![s] = x]
<1>1. ses \in [Session -> SesSet] /\ x \in SesSet
  BY DEF Inv, Becomes
<1>2. f \in [Session -> SesSet] /\ f[s] = x /\ \A t \in Session : t # s => f[t] = ses[t]
  BY <1>1
<1>3. leases' = Cardinality(RunningIn(f))
  BY <1>1, RunningAfter DEF Becomes
<1> HIDE DEF f
<1>4. x # GoneSession
  BY DEF Becomes, GoneSession
<1>5. RefInv(f, build', spool')
  BY <1>2 DEF Inv, DataOK, RefInv, Becomes
<1>6. \A t \in Session : SesInv(f, build', spool', version', t)
  <2> SUFFICES ASSUME NEW t \in Session PROVE SesInv(f, build', spool', version', t)
    OBVIOUS
  <2>0. SesInv(ses, build, spool, version, t)
    BY DEF Inv
  <2>1. CASE t # s
    <3>1. f[t] = ses[t]
      BY <1>2, <2>1
    <3>2. (build = t => build' = t) /\ (spool = t => spool' = t)
      BY <2>1 DEF Becomes
    <3> QED
      BY <2>0, <3>1, <3>2 DEF SesInv
  <2>2. CASE t = s
    <3>1. f[t] = x
      BY <1>2, <2>2
    <3> QED
      BY <2>0, <2>2, <3>1 DEF SesInv, Becomes
  <2> QED
    BY <2>1, <2>2
<1> QED
  BY <1>2, <1>3, <1>4, <1>5, <1>6 DEF f

\* A step that changes session s
LEMMA SessionMoves ==
    ASSUME Inv, NEW s \in Session, NEW x, Becomes(s, x),
           UNCHANGED <<version, req, locks, inv, raced>>,
           \/ cache' = cache
           \/ CanPublish(ses[s]) /\ cache' = ses[s].ver,
           \/ listening' = Awake({s})
           \/ /\ listening' = listening /\ x.st \notin {"ended", "gone"}
              /\ x.bytes = ses[s].bytes /\ (x.err => x.st = "clean" \/ (ses[s].err /\ ses[s].st # "clean"))
    PROVE  Leads([ses EXCEPT ![s] = x])
<1> DEFINE f == [ses EXCEPT ![s] = x]
<1>1. /\ f \in [Session -> SesSet] /\ f[s] = x /\ f[s] # GoneSession
      /\ \A t \in Session : t # s => f[t] = ses[t]
      /\ leases' = Cardinality(RunningIn(f))
      /\ RefInv(f, build', spool')
      /\ \A t \in Session : SesInv(f, build', spool', version', t)
  BY SessionsAfter
<1> HIDE DEF f
<1>2. /\ build' \in {build, NoSession} /\ spool' \in {spool, NoSession}
      /\ build' # build => build = s
  BY DEF Becomes
<1>3. DataOK'
  <2>1. cache' \in Keys
    BY DEF Inv, DataOK, Keys, SesSet
  <2>2. listening' \subseteq Request
    BY DEF Inv, DataOK, Awake
  <2> QED
    BY <1>2, <2>1, <2>2 DEF Inv, DataOK
<1>4. \A u \in Request : ReqInv(f, spool', req', listening', locks', version', u)
  <2> SUFFICES ASSUME NEW u \in Request PROVE ReqInv(f, spool', req', listening', locks', version', u)
    OBVIOUS
  <2>1. version <= version'
    BY ConstantFacts DEF Inv, DataOK
  <2>2. \A t \in Session : ses[t] # GoneSession => f[t] # GoneSession
    BY <1>1
  <2>3. u \in listening => /\ req[u].on \in Session
                           /\ ses[req[u].on].err => ses[req[u].on].st = "clean"
    BY DEF Inv, ReqInv, RunningIn
  <2>4. u \in listening' => u \in listening
    BY DEF Awake
  <2>5. ASSUME u \in listening'
        PROVE  \/ f[req[u].on] = ses[req[u].on]
               \/ /\ f[req[u].on].st \notin {"ended", "gone"}
                  /\ f[req[u].on].bytes = ses[req[u].on].bytes
                  /\ f[req[u].on].err => f[req[u].on].st = "clean"
    <3>1. CASE req[u].on # s
      BY <1>1, <2>3, <2>4, <2>5, <3>1
    <3>2. CASE req[u].on = s
      <4>1. /\ listening' = listening /\ x.st \notin {"ended", "gone"}
            /\ x.bytes = ses[s].bytes /\ (x.err => x.st = "clean" \/ (ses[s].err /\ ses[s].st # "clean"))
        BY <2>5, <3>2 DEF Awake
      <4> QED
        BY <1>1, <2>3, <2>5, <3>2, <4>1 DEF Becomes
    <3> QED
      BY <3>1, <3>2
  <2> QED
    BY <1>2, <1>3, <2>1, <2>2, <2>4, <2>5, Bystander
<1>5. CacheInv(f, build', spool', version', cache', inv', raced')
  <2>1. x.ver = ses[s].ver /\ (CanPublish(x) => CanPublish(ses[s]))
    BY DEF Becomes
  <2>2. \A t \in Session : CanPublish(f[t]) => CanPublish(ses[t]) /\ f[t].ver = ses[t].ver
    BY <1>1, <2>1
  <2>3. CacheInv(ses, build, spool, version, cache, inv, raced) /\ build \in Session \cup {NoSession}
    BY DEF Inv, DataOK
  <2>4. \A t \in Session : CanPublish(f[t]) /\ build = t => build' = t
    BY <1>1, <1>2 DEF CanPublish, Becomes
  <2> QED
    BY <1>2, <2>2, <2>3, <2>4, SessionAssumption DEF CacheInv
<1> QED
  BY <1>1, <1>3, <1>4, <1>5 DEF Leads, f

LEMMA SesFacts ==
    ASSUME Inv, NEW s \in Session
    PROVE  ses[s] \in SesSet /\ SesInv(ses, build, spool, version, s) /\ ses \in [Session -> SesSet]
BY DEF Inv

LEMMA CreateFileStep == ASSUME Inv, NEW s \in Session, CreateFile(s) PROVE Inv'
<1> DEFINE x == [ses[s] EXCEPT !.st = "fetch", !.file = TRUE]
<1>1. ses[s] \in SesSet /\ SesInv(ses, build, spool, version, s) /\ ses \in [Session -> SesSet]
  BY SesFacts
<1>2. /\ x \in SesSet /\ x.kind = ses[s].kind /\ x.ver = ses[s].ver /\ x.st = "fetch"
      /\ x.bytes = ses[s].bytes /\ x.err = ses[s].err /\ x.done = ses[s].done
  BY <1>1 DEF SesSet, States
<1>3. ses' = [ses EXCEPT ![s] = x]
  BY <1>1 DEF CreateFile
<1> HIDE DEF x
<1>4. Becomes(s, x)
  BY <1>1, <1>2 DEF CreateFile, Becomes, SesInv, CanPublish
<1>5. Leads([ses EXCEPT ![s] = x])
  BY <1>2, <1>4, SessionMoves DEF CreateFile
<1> QED
  BY <1>3, <1>5, PlainKeeps

LEMMA FetchedStep == ASSUME Inv, NEW s \in Session, Fetched(s) PROVE Inv'
<1>1. ses[s] \in SesSet /\ SesInv(ses, build, spool, version, s) /\ ses \in [Session -> SesSet]
  BY SesFacts
<1>2. CASE ses[s].kind = "spool" /\ spool # s
  <2> DEFINE x == [ses[s] EXCEPT !.st = "gone"]
  <2>1. /\ x \in SesSet /\ x.kind = ses[s].kind /\ x.ver = ses[s].ver /\ x.st = "gone"
        /\ x.err = ses[s].err
    BY <1>1 DEF SesSet, States
  <2>2. ses' = Collect([ses EXCEPT ![s] = x])
    BY <1>1, <1>2 DEF Fetched
  <2> HIDE DEF x
  <2>3. ses[s].err /\ ses[s].st = "fetch"
    BY <1>1, <1>2 DEF Fetched, SesInv
  <2>4. build # s
    BY <1>2, SessionAssumption DEF Inv, RefInv
  <2>5. Becomes(s, x)
    BY <1>1, <1>2, <2>1, <2>3, <2>4 DEF Fetched, Becomes, CanPublish
  <2>6. listening' = Awake({s})
    BY <2>3 DEF Fetched, Inv, DataOK, ReqInv, Awake
  <2>7. Leads([ses EXCEPT ![s] = x])
    BY <2>5, <2>6, SessionMoves DEF Fetched
  <2> QED
    BY <2>2, <2>7, CollectKeeps
<1>3. CASE ~(ses[s].kind = "spool" /\ spool # s)
  <2> DEFINE x == [ses[s] EXCEPT !.st = "copy"]
  <2>1. /\ x \in SesSet /\ x.kind = ses[s].kind /\ x.ver = ses[s].ver /\ x.st = "copy"
        /\ x.bytes = ses[s].bytes /\ x.err = ses[s].err /\ x.done = ses[s].done
    BY <1>1 DEF SesSet, States
  <2>2. ses' = [ses EXCEPT ![s] = x]
    BY <1>1, <1>3 DEF Fetched
  <2> HIDE DEF x
  <2>3. Becomes(s, x)
    BY <1>1, <1>3, <2>1 DEF Fetched, Becomes, SesInv, CanPublish
  <2>4. Leads([ses EXCEPT ![s] = x])
    BY <2>1, <2>3, SessionMoves DEF Fetched
  <2> QED
    BY <2>2, <2>4, PlainKeeps
<1> QED
  BY <1>2, <1>3

LEMMA ChunkStep == ASSUME Inv, NEW s \in Session, Chunk(s) PROVE Inv'
<1> DEFINE x == [ses[s] EXCEPT !.bytes = @ + 1]
<1>1. ses[s] \in SesSet /\ SesInv(ses, build, spool, version, s) /\ ses \in [Session -> SesSet]
  BY SesFacts
<1>2. /\ x \in SesSet /\ x.kind = ses[s].kind /\ x.ver = ses[s].ver /\ x.st = ses[s].st
      /\ x.err = ses[s].err /\ x.done = ses[s].done
  BY <1>1 DEF SesSet
<1>3. ses' = [ses EXCEPT ![s] = x]
  BY <1>1 DEF Chunk
<1> HIDE DEF x
<1>4. Becomes(s, x)
  BY <1>1, <1>2 DEF Chunk, Becomes, SesInv, CanPublish
<1>5. Leads([ses EXCEPT ![s] = x])
  BY <1>2, <1>4, SessionMoves DEF Chunk
<1> QED
  BY <1>3, <1>5, PlainKeeps

LEMMA FailsStep == ASSUME Inv, NEW s \in Session, Fails(s) PROVE Inv'
<1> DEFINE x == [ses[s] EXCEPT !.err = TRUE, !.st = "clean"]
<1>1. ses[s] \in SesSet /\ SesInv(ses, build, spool, version, s) /\ ses \in [Session -> SesSet]
  BY SesFacts
<1>2. /\ x \in SesSet /\ x.kind = ses[s].kind /\ x.ver = ses[s].ver /\ x.st = "clean"
      /\ x.bytes = ses[s].bytes /\ x.err = TRUE /\ x.done = ses[s].done
  BY <1>1 DEF SesSet, States
<1>3. ses' = [ses EXCEPT ![s] = x]
  BY <1>1 DEF Fails
<1> HIDE DEF x
<1>4. Becomes(s, x)
  BY <1>1, <1>2 DEF Fails, Becomes, SesInv, CanPublish
<1>5. Leads([ses EXCEPT ![s] = x])
  BY <1>2, <1>4, SessionMoves DEF Fails
<1> QED
  BY <1>3, <1>5, PlainKeeps

LEMMA CheckStep == ASSUME Inv, NEW s \in Session, Check(s) PROVE Inv'
<1> DEFINE x == [ses[s] EXCEPT !.st = "check"]
<1>1. ses[s] \in SesSet /\ SesInv(ses, build, spool, version, s) /\ ses \in [Session -> SesSet]
  BY SesFacts
<1>2. /\ x \in SesSet /\ x.kind = ses[s].kind /\ x.ver = ses[s].ver /\ x.st = "check"
      /\ x.bytes = ses[s].bytes /\ x.err = ses[s].err /\ x.done = ses[s].done
  BY <1>1 DEF SesSet, States
<1>3. ses' = [ses EXCEPT ![s] = x]
  BY <1>1 DEF Check
<1> HIDE DEF x
<1>4. Becomes(s, x)
  BY <1>1, <1>2 DEF Check, Becomes, SesInv, CanPublish
<1>5. Leads([ses EXCEPT ![s] = x])
  BY <1>2, <1>4, SessionMoves DEF Check
<1> QED
  BY <1>3, <1>5, PlainKeeps

LEMMA PublishStep == ASSUME Inv, NEW s \in Session, Publish(s) PROVE Inv'
<1>1. ses[s] \in SesSet /\ SesInv(ses, build, spool, version, s) /\ ses \in [Session -> SesSet]
  BY SesFacts
<1>2. ASSUME ses[s].file, ses[s].kind = "build",
             ses' = [ses EXCEPT ![s].done = TRUE, ![s].file = FALSE, ![s].st = "ended"],
             cache' = ses[s].ver, leases' = leases - 1, listening' = Awake({s})
      PROVE  Inv'
  <2> DEFINE x == [ses[s] EXCEPT !.done = TRUE, !.file = FALSE, !.st = "ended"]
  <2>1. /\ x \in SesSet /\ x.kind = ses[s].kind /\ x.ver = ses[s].ver /\ x.st = "ended"
        /\ x.done = TRUE /\ x.file = FALSE
    BY <1>1 DEF SesSet, States
  <2>2. ses' = [ses EXCEPT ![s] = x]
    BY <1>1, <1>2
  <2> HIDE DEF x
  <2>3. Becomes(s, x)
    BY <1>1, <1>2, <2>1 DEF Publish, Becomes, CanPublish
  <2>4. CanPublish(ses[s])
    BY <1>2 DEF Publish, CanPublish
  <2>5. Leads([ses EXCEPT ![s] = x])
    BY <1>2, <2>3, <2>4, SessionMoves DEF Publish
  <2> QED
    BY <2>2, <2>5, PlainKeeps
<1>3. ASSUME ses[s].file, ses[s].kind = "spool",
             ses' = Collect([ses EXCEPT ![s].done = TRUE, ![s].st = "gone"]),
             leases' = leases - 1, listening' = Awake({s}), UNCHANGED cache
      PROVE  Inv'
  <2> DEFINE x == [ses[s] EXCEPT !.done = TRUE, !.st = "gone"]
  <2>1. /\ x \in SesSet /\ x.kind = ses[s].kind /\ x.ver = ses[s].ver /\ x.st = "gone"
        /\ x.done = TRUE
    BY <1>1 DEF SesSet, States
  <2>2. ses' = Collect([ses EXCEPT ![s] = x])
    BY <1>1, <1>3
  <2> HIDE DEF x
  <2>3. build # s
    BY <1>3, SessionAssumption DEF Inv, RefInv
  <2>4. Becomes(s, x)
    BY <1>1, <1>3, <2>1, <2>3 DEF Publish, Becomes, CanPublish
  <2>5. Leads([ses EXCEPT ![s] = x])
    BY <1>3, <2>4, SessionMoves DEF Publish
  <2> QED
    BY <2>2, <2>5, CollectKeeps
<1>4. ASSUME ~ses[s].file, ses' = [ses EXCEPT ![s].err = TRUE, ![s].st = "clean"],
             UNCHANGED <<cache, leases, listening>>
      PROVE  Inv'
  <2> DEFINE x == [ses[s] EXCEPT !.err = TRUE, !.st = "clean"]
  <2>1. /\ x \in SesSet /\ x.kind = ses[s].kind /\ x.ver = ses[s].ver /\ x.st = "clean"
        /\ x.bytes = ses[s].bytes /\ x.err = TRUE /\ x.done = ses[s].done
    BY <1>1 DEF SesSet, States
  <2>2. ses' = [ses EXCEPT ![s] = x]
    BY <1>1, <1>4
  <2> HIDE DEF x
  <2>3. Becomes(s, x)
    BY <1>1, <1>4, <2>1 DEF Publish, Becomes, SesInv, CanPublish
  <2>4. Leads([ses EXCEPT ![s] = x])
    BY <1>4, <2>1, <2>3, SessionMoves DEF Publish
  <2> QED
    BY <2>2, <2>4, PlainKeeps
<1> QED
  BY <1>2, <1>3, <1>4 DEF Publish

LEMMA CleanStep == ASSUME Inv, NEW s \in Session, Clean(s) PROVE Inv'
<1> DEFINE st == IF ses[s].kind = "build" THEN "ended" ELSE "gone"
           x == [ses[s] EXCEPT !.file = FALSE, !.st = st]
<1>1. ses[s] \in SesSet /\ SesInv(ses, build, spool, version, s) /\ ses \in [Session -> SesSet]
  BY SesFacts
<1>2. st \in {"ended", "gone"} /\ (ses[s].kind = "build" <=> st = "ended")
  OBVIOUS
<1>3. ses' = Collect([ses EXCEPT ![s] = x])
  BY <1>1 DEF Clean
<1> HIDE DEF st
<1>4. /\ x \in SesSet /\ x.kind = ses[s].kind /\ x.ver = ses[s].ver /\ x.st = st
      /\ x.err = ses[s].err /\ x.file = FALSE
  BY <1>1, <1>2 DEF SesSet, States
<1> HIDE DEF x
<1>5. build = s => ses[s].kind = "build"
  BY SessionAssumption DEF Inv, RefInv
<1>6. spool = s => ses[s].kind = "spool"
  BY SessionAssumption DEF Inv, RefInv
<1>7. Becomes(s, x)
  BY <1>1, <1>2, <1>4, <1>5, <1>6 DEF Clean, Becomes, SesInv, CanPublish
<1>8. Leads([ses EXCEPT ![s] = x])
  BY <1>7, SessionMoves DEF Clean
<1> QED
  BY <1>3, <1>8, CollectKeeps

LEMMA DropStep == ASSUME Inv, NEW s \in Session, Drop(s) PROVE Inv'
<1> DEFINE x == [ses[s] EXCEPT !.st = "gone"]
<1>1. ses[s] \in SesSet /\ SesInv(ses, build, spool, version, s) /\ ses \in [Session -> SesSet]
  BY SesFacts
<1>2. /\ x \in SesSet /\ x.kind = ses[s].kind /\ x.ver = ses[s].ver /\ x.st = "gone"
      /\ x.err = ses[s].err /\ x.done = ses[s].done /\ x.file = ses[s].file
  BY <1>1 DEF SesSet, States
<1>3. ses' = Collect([ses EXCEPT ![s] = x])
  BY <1>1 DEF Drop
<1> HIDE DEF x
<1>4. ses[s] # GoneSession
  BY DEF Drop, GoneSession
<1>5. Becomes(s, x)
  BY <1>1, <1>2, <1>4 DEF Drop, Becomes, SesInv, CanPublish
<1>6. listening' = Awake({s})
  BY DEF Drop, Inv, DataOK, ReqInv, Awake, RunningIn
<1>7. Leads([ses EXCEPT ![s] = x])
  BY <1>5, <1>6, SessionMoves DEF Drop
<1> QED
  BY <1>3, <1>7, CollectKeeps

\* A session that is torn down
LEMMA TornDownFacts ==
    ASSUME Inv, NEW s \in Session, ses[s] # GoneSession, UNCHANGED <<build, leases>>,
           spool' = IF spool = s THEN NoSession ELSE spool
    PROVE  \E x : TornDown(s) = [ses EXCEPT ![s] = x] /\ Becomes(s, x)
<1> DEFINE x == [ses[s] EXCEPT !.err = TRUE, !.file = FALSE]
<1>1. ses[s] \in SesSet /\ SesInv(ses, build, spool, version, s) /\ ses \in [Session -> SesSet]
  BY SesFacts
<1>2. /\ x \in SesSet /\ x.kind = ses[s].kind /\ x.ver = ses[s].ver /\ x.st = ses[s].st
      /\ x.err = TRUE /\ x.done = ses[s].done /\ x.file = FALSE
  BY <1>1 DEF SesSet
<1>3. TornDown(s) = [ses EXCEPT ![s] = x]
  BY <1>1 DEF TornDown
<1> HIDE DEF x
<1>4. build = s => ses[s].st # "gone"
  BY SessionAssumption DEF Inv, RefInv
<1>5. CanPublish(x) => CanPublish(ses[s])
  BY <1>2 DEF CanPublish
<1>6. Becomes(s, x)
  BY <1>1, <1>2, <1>4, <1>5 DEF Becomes, SesInv
<1> QED
  BY <1>3, <1>6

LEMMA GraceStep == ASSUME Inv, Grace PROVE Inv'
<1>1. /\ spool # NoSession /\ spool' = NoSession /\ listening' = Awake({spool})
      /\ UNCHANGED <<version, cache, build, locks, req, leases, inv, raced>>
      /\ ses' = Collect(TornDown(spool))
  BY DEF Grace
<1>2. spool \in Session /\ ses[spool] # GoneSession
  BY <1>1, RegisteredExists
<1>3. PICK x : TornDown(spool) = [ses EXCEPT ![spool] = x] /\ Becomes(spool, x)
  BY <1>1, <1>2, TornDownFacts
<1>4. Leads([ses EXCEPT ![spool] = x])
  BY <1>1, <1>2, <1>3, SessionMoves
<1> QED
  BY <1>1, <1>3, <1>4, CollectKeeps

----------------------------------------------------------------------------
\* Aborting the registered build: it fails unless it is over, and then no running
\* build is without an error.

LEMMA AbortFacts ==
    ASSUME Inv
    PROVE  LET f == Abort({build}) IN
           /\ f \in [Session -> SesSet]
           /\ \A s \in Session :
                 /\ f[s].kind = ses[s].kind /\ f[s].ver = ses[s].ver /\ f[s].st = ses[s].st
                 /\ (f[s] = GoneSession) = (ses[s] = GoneSession)
                 /\ s # build => f[s] = ses[s]
                 /\ CanPublish(f[s]) => CanPublish(ses[s])
                 /\ s = build /\ CanPublish(f[s]) => ses[s].st = "check"
           /\ RunningIn(f) = RunningIn(ses)
           /\ RefInv(f, build, spool)
           /\ \A b : \A s \in Session : SesInv(f, b, spool, version, s)
<1> DEFINE f == Abort({build})
<1>1. \A s \in Session :
         /\ ses[s] \in SesSet /\ SesInv(ses, build, spool, version, s)
         /\ f[s] = IF s = build /\ ~ses[s].done THEN [ses[s] EXCEPT !.err = TRUE] ELSE ses[s]
  BY SesFacts DEF Abort
<1>2. \A s \in Session : [ses[s] EXCEPT !.err = TRUE] \in SesSet
  BY <1>1 DEF SesSet
<1>3. f \in [Session -> SesSet]
  BY <1>1, <1>2 DEF Abort
<1> HIDE DEF f
<1>4. ASSUME NEW s \in Session
      PROVE  /\ f[s].kind = ses[s].kind /\ f[s].ver = ses[s].ver /\ f[s].st = ses[s].st
             /\ f[s].done = ses[s].done /\ f[s].file = ses[s].file
             /\ s # build => f[s] = ses[s]
             /\ s = build /\ ~ses[s].done => f[s].err
             /\ ses[s].err => f[s].err
             /\ ses[s].done => f[s] = ses[s]
  BY <1>1 DEF SesSet
<1>5. ASSUME NEW s \in Session
      PROVE  /\ CanPublish(f[s]) => CanPublish(ses[s])
             /\ s = build /\ CanPublish(f[s]) => ses[s].st = "check"
  BY <1>1, <1>4 DEF CanPublish, SesInv
<1>6. ASSUME NEW s \in Session PROVE (f[s] = GoneSession) = (ses[s] = GoneSession)
  <2>1. s = build => ses[s] # GoneSession /\ ses[s].st # "gone"
    BY RegisteredExists, SessionAssumption DEF Inv, RefInv
  <2>2. s = build => f[s] # GoneSession
    BY <1>4, <2>1 DEF GoneSession
  <2> QED
    BY <1>4, <2>1, <2>2
<1>7. RunningIn(f) = RunningIn(ses)
  BY <1>4 DEF RunningIn
<1>8. RefInv(f, build, spool)
  BY <1>4 DEF Inv, DataOK, RefInv
<1>9. ASSUME NEW b, NEW s \in Session PROVE SesInv(f, b, spool, version, s)
  BY <1>1, <1>4, <1>6 DEF SesInv
<1> QED
  BY <1>3, <1>4, <1>5, <1>6, <1>7, <1>8, <1>9 DEF f

\* Whoever listened to the aborted build has been told; nobody else notices.
LEMMA AbortBystander ==
    ASSUME Inv, DataOK', NEW f, NEW u \in Request, req'[u] = req[u], version' = version,
           HeldBy(locks, u) => HeldBy(locks', u), spool' = spool,
           listening' = Awake({build}),
           \A s \in Session : ses[s] # GoneSession => f[s] # GoneSession,
           \A s \in Session : s # build /\ ses[s] # GoneSession => f[s] = ses[s]
    PROVE  ReqInv(f, spool', req', listening', locks', version', u)
<1>1. version <= version'
  BY ConstantFacts DEF Inv, DataOK
<1>2. u \in listening' => /\ u \in listening /\ req[u].on # build
                          /\ req[u].on \in Session /\ ses[req[u].on] # GoneSession
  BY DEF Awake, Inv, ReqInv
<1> QED
  BY <1>1, <1>2, Bystander

LEMMA EnterStep == ASSUME Inv, NEW r \in Request, Enter(r) PROVE Inv'
<1>1. r \notin listening
  BY ListeningWaits DEF Enter, At
<1>2. /\ req \in [Request -> ReqSet] /\ req[r].want \in Keys /\ 0 \in Keys
      /\ UNCHANGED <<version, build, spool, leases, inv, raced>>
  BY WantIsKey DEF Enter, Inv, DataOK
<1>3. ASSUME req[r].mode = "nocache", build = NoSession, Queue(r, 0, "slock"), UNCHANGED <<cache, ses>>
      PROVE  Inv'
  BY <1>1, <1>2, <1>3, QueueStep
<1>4. ASSUME build # NoSession, ses' = Abort({build}), listening' = Awake({build}),
             req' = MovesOn(r, "abort", build), UNCHANGED <<locks, cache>>
      PROVE  Inv'
  <2> DEFINE f == Abort({build})
  <2>1. /\ f \in [Session -> SesSet]
        /\ \A s \in Session :
              /\ f[s].kind = ses[s].kind /\ f[s].ver = ses[s].ver /\ f[s].st = ses[s].st
              /\ (f[s] = GoneSession) = (ses[s] = GoneSession)
              /\ s # build => f[s] = ses[s]
              /\ CanPublish(f[s]) => CanPublish(ses[s])
        /\ RunningIn(f) = RunningIn(ses)
        /\ RefInv(f, build, spool)
        /\ \A b : \A s \in Session : SesInv(f, b, spool, version, s)
    BY AbortFacts
  <2> HIDE DEF f
  <2>2. /\ req' \in [Request -> ReqSet] /\ \A u \in Request : u # r => req'[u] = req[u]
        /\ req'[r].pc = "abort" /\ req'[r].want = req[r].want
    <3>1. "abort" \in Pcs /\ build \in Session \cup {NoSession}
      BY DEF Pcs, Inv, DataOK
    <3> QED
      BY <1>2, <1>4, <3>1, MoveFacts
  <2>3. DataOK'
    BY <1>2, <1>4, <2>2 DEF Inv, DataOK, Awake
  <2>4. ReqInv(f, spool', req', listening', locks', version', r)
    BY <1>1, <1>2, <1>4, <2>2 DEF Inv, ReqInv, Awake
  <2>5. \A u \in Request : u # r => ReqInv(f, spool', req', listening', locks', version', u)
    BY <1>2, <1>4, <2>1, <2>2, <2>3, AbortBystander
  <2>6. CacheInv(f, build', spool', version', cache', inv', raced')
    BY <1>2, <1>4, <2>1 DEF Inv, DataOK, CacheInv
  <2>7. Leads(f)
    BY <1>2, <2>1, <2>3, <2>4, <2>5, <2>6 DEF Leads, Inv
  <2> QED
    BY <1>4, <2>7, PlainKeeps DEF f
<1>5. ASSUME cache' = CacheAfterLookup(r), UNCHANGED ses, req' = Ends(r), UNCHANGED <<locks, listening>>
      PROVE  Inv'
  BY <1>1, <1>2, <1>5, LookupFacts, MoveFacts, QuietMoves, QuietRequestStep
<1>6. ASSUME cache' = CacheAfterLookup(r), UNCHANGED ses, BuildFor(r), req' = Follows(r, build),
             UNCHANGED <<locks, listening>>
      PROVE  Inv'
  <2>1. build \in Session /\ ses[build] # GoneSession
    BY <1>6, RegisteredExists DEF BuildFor
  <2>2. Follows(r, build) \in [Request -> ReqSet] /\ \A u \in Request : u # r => Follows(r, build)[u] = req[u]
    BY <1>2, <2>1, MoveFacts
  <2>3. ReqInv(ses, spool, Follows(r, build), listening, locks, version, r)
    BY <1>1, <2>1, QuietMoves
  <2> QED
    BY <1>1, <1>2, <1>6, <2>2, <2>3, LookupFacts, QuietRequestStep
<1>7. ASSUME cache' = CacheAfterLookup(r), UNCHANGED ses, Queue(r, req[r].want, "lock")
      PROVE  Inv'
  BY <1>1, <1>2, <1>7, LookupFacts, QueueStep
<1> QED
  BY <1>3, <1>4, <1>5, <1>6, <1>7 DEF Enter

LEMMA AdmitBuildStep == ASSUME Inv, NEW r \in Request, AdmitBuild(r) PROVE Inv'
<1> DEFINE v == req[r].want
           x == NewSession("build", v)
<1>1. PICK s \in Free :
         /\ ses' = [Abort({build}) EXCEPT ![s] = x] /\ build' = s /\ leases' = leases + 1
         /\ listening' = Awake({build})
         /\ \/ req' = MovesOn(r, "readable", s) /\ UNCHANGED locks
            \/ req' = Follows(r, s) /\ locks' = Unlock(r)
         /\ raced' = \/ raced
                     \/ v < version /\ inv.pc = "idle"
                     \/ build # NoSession /\ ses[build].st = "check"
  BY DEF AdmitBuild
<1>2. /\ UNCHANGED <<version, cache, spool, inv>> /\ inv.pc \in {"idle", "owed"}
      /\ req[r].pc = "admit"
  BY DEF AdmitBuild, Fence, At
<1>3. s \in Session /\ ses[s] = GoneSession /\ s # build /\ s # spool
  BY <1>1, RegisteredExists, SessionAssumption DEF Free
<1>4. r \notin listening /\ req \in [Request -> ReqSet] /\ locks \in [Keys -> Seq(Request)]
  BY <1>2, ListeningWaits DEF Inv, DataOK
<1>5. v \in Versions /\ v <= version /\ version \in Nat /\ v \in Nat /\ 1 <= version
  <2>1. v \in Versions
    BY <1>4 DEF ReqSet
  <2>2. v <= version /\ version \in Versions
    BY DEF Inv, DataOK, ReqInv
  <2>3. Versions \subseteq Nat \ {0}
    BY ConstantFacts
  <2> HIDE DEF v
  <2> QED
    BY <2>1, <2>2, <2>3
<1>6. /\ x \in SesSet /\ x.kind = "build" /\ x.ver = v /\ x.st = "new" /\ x.err = FALSE
      /\ x.done = FALSE /\ x # GoneSession /\ CanPublish(x)
  BY <1>5 DEF NewSession, SesSet, States, GoneSession, CanPublish
<1> HIDE DEF x
<1> DEFINE a == Abort({build})
           f == [a EXCEPT ![s] = x]
<1>7. /\ a \in [Session -> SesSet]
      /\ \A t \in Session :
            /\ a[t].st = ses[t].st
            /\ (a[t] = GoneSession) = (ses[t] = GoneSession)
            /\ t # build => a[t] = ses[t]
            /\ CanPublish(a[t]) => CanPublish(ses[t])
            /\ t = build /\ CanPublish(a[t]) => ses[t].st = "check"
      /\ RunningIn(a) = RunningIn(ses)
      /\ RefInv(a, build, spool)
      /\ \A b : \A t \in Session : SesInv(a, b, spool, version, t)
  BY AbortFacts
<1> HIDE DEF a, v
<1>8. f \in [Session -> SesSet] /\ f[s] = x /\ \A t \in Session : t # s => f[t] = a[t]
  BY <1>3, <1>6, <1>7
<1> HIDE DEF f
<1>9. leases' = Cardinality(RunningIn(f))
  <2>1. ses \in [Session -> SesSet] /\ ses[s].st = "gone"
    BY <1>3 DEF Inv, GoneSession
  <2>2. RunningIn(f) = RunningIn([ses EXCEPT ![s] = x])
    BY <1>3, <1>7, <1>8, <2>1 DEF RunningIn
  <2>3. Cardinality(RunningIn([ses EXCEPT ![s] = x])) = leases + 1
    BY <1>3, <1>6, <2>1, RunningAfter
  <2> QED
    BY <1>1, <2>2, <2>3
<1>10. /\ req' \in [Request -> ReqSet] /\ \A u \in Request : u # r => req'[u] = req[u]
       /\ req'[r].pc \in {"readable", "stream"} /\ req'[r].on = s /\ req'[r].want <= version
  <2>1. "readable" \in Pcs
    BY DEF Pcs
  <2> QED
    BY <1>1, <1>3, <1>4, <1>5, <2>1, MoveFacts DEF v
<1>11. /\ locks' \in [Keys -> Seq(Request)]
       /\ \A u \in Request : u # r => (HeldBy(locks, u) => HeldBy(locks', u))
  BY <1>1, <1>4, UnlockFacts
<1>12. DataOK'
  <2>1. raced' \in BOOLEAN
    BY <1>1
  <2> QED
    BY <1>1, <1>2, <1>3, <1>10, <1>11, <2>1 DEF Inv, DataOK, Awake
<1>13. \A u \in Request : ReqInv(f, spool', req', listening', locks', version', u)
  <2>1. ReqInv(f, spool', req', listening', locks', version', r)
    BY <1>1, <1>2, <1>3, <1>4, <1>6, <1>8, <1>10 DEF ReqInv, Awake
  <2>2. \A t \in Session : ses[t] # GoneSession => f[t] # GoneSession
    BY <1>3, <1>6, <1>7, <1>8
  <2>3. \A t \in Session : t # build /\ ses[t] # GoneSession => f[t] = ses[t]
    BY <1>3, <1>7, <1>8
  <2>4. \A u \in Request : u # r => ReqInv(f, spool', req', listening', locks', version', u)
    BY <1>1, <1>2, <1>10, <1>11, <1>12, <2>2, <2>3, AbortBystander
  <2> QED
    BY <2>1, <2>4
<1>14. RefInv(f, build', spool')
  BY <1>1, <1>2, <1>3, <1>6, <1>7, <1>8 DEF RefInv, Inv, DataOK
<1>15. \A t \in Session : SesInv(f, build', spool', version', t)
  <2> SUFFICES ASSUME NEW t \in Session PROVE SesInv(f, build', spool', version', t)
    OBVIOUS
  <2>1. CASE t = s
    BY <1>1, <1>2, <1>5, <1>6, <1>8, <2>1 DEF SesInv
  <2>2. CASE t # s
    BY <1>2, <1>7, <1>8, <2>2 DEF SesInv
  <2> QED
    BY <2>1, <2>2
<1>16. CacheInv(f, build', spool', version', cache', inv', raced')
  <2>1. ASSUME ~raced'
        PROVE  /\ ~raced /\ (inv.pc = "idle" => v = version)
               /\ build # NoSession => ses[build].st # "check"
    BY <1>1, <1>5, <2>1
  <2>2. ASSUME ~raced', NEW t \in Session, CanPublish(f[t]) PROVE t = s
    <3>1. SUFFICES ASSUME t # s PROVE FALSE
      OBVIOUS
    <3>2. CanPublish(ses[t]) /\ (t = build => ses[t].st = "check")
      BY <1>7, <1>8, <2>2, <3>1
    <3>3. t = build
      BY <2>1, <2>2, <3>2 DEF Inv, CacheInv
    <3> QED
      BY <2>1, <2>2, <3>2, <3>3, SessionAssumption
  <2>3. ~raced' /\ inv.pc = "idle" /\ cache # 0 => cache = version
    BY <2>1 DEF Inv, CacheInv
  <2> QED
    BY <1>1, <1>2, <1>6, <1>8, <2>1, <2>2, <2>3 DEF CacheInv
<1>17. Leads(f)
  BY <1>8, <1>9, <1>12, <1>13, <1>14, <1>15, <1>16 DEF Leads
<1> QED
  BY <1>1, <1>17, PlainKeeps DEF f, a

----------------------------------------------------------------------------
\* Spools

\* Whoever listened to the session that is torn down has been told.
LEMMA TeardownBystander ==
    ASSUME Inv, DataOK', NEW s \in Session, NEW f, NEW u \in Request,
           req'[u] = req[u], UNCHANGED <<version, locks>>,
           spool' = spool \/ spool' = NoSession, listening' = Awake({s}),
           f[s] # GoneSession, \A t \in Session : t # s => f[t] = ses[t]
    PROVE  ReqInv(f, spool', req', listening', locks', version', u)
<1>1. version <= version'
  BY ConstantFacts DEF Inv, DataOK
<1>2. u \in listening' => u \in listening /\ req[u].on # s /\ req[u].on \in Session
  BY DEF Awake, Inv, ReqInv, RunningIn
<1>3. \A t \in Session : ses[t] # GoneSession => f[t] # GoneSession
  OBVIOUS
<1> QED
  BY <1>1, <1>2, <1>3, Bystander

\* What stays of the cache invariant when a session is torn down
LEMMA TeardownCache ==
    ASSUME Inv, NEW s \in Session, NEW x, Becomes(s, x), UNCHANGED <<version, cache, inv, raced, build>>,
           spool' = spool \/ spool' = NoSession
    PROVE  CacheInv([ses EXCEPT ![s] = x], build', spool', version', cache', inv', raced')
<1> DEFINE f == [ses EXCEPT ![s] = x]
<1>1. ses \in [Session -> SesSet] /\ build \in Session \cup {NoSession}
  BY DEF Inv, DataOK
<1>2. f[s] = x /\ \A t \in Session : t # s => f[t] = ses[t]
  BY <1>1
<1> HIDE DEF f
<1>3. \A t \in Session : CanPublish(f[t]) => CanPublish(ses[t]) /\ f[t].ver = ses[t].ver
  BY <1>2 DEF Becomes
<1>4. CacheInv(f, build', spool', version', cache', inv', raced')
  BY <1>1, <1>3 DEF Inv, CacheInv
<1> QED
  BY <1>4 DEF f

\* Under the lock of the spools, request r tears session s down and goes on to be
\* admitted.
LEMMA ReplacedSpoolStep ==
    ASSUME Inv, NEW r \in Request, NEW s \in Session, NEW o \in Session \cup {NoSession},
           ses[s] # GoneSession, r \notin listening, HeldBy(locks, r),
           spool = s \/ spool = NoSession,
           req' = MovesOn(r, "sadmit", o), spool' = NoSession, listening' = Awake({s}),
           UNCHANGED <<version, cache, build, locks, leases, inv, raced>>,
           ses' = Collect(TornDown(s))
    PROVE  Inv'
<1>1. PICK x : TornDown(s) = [ses EXCEPT ![s] = x] /\ Becomes(s, x)
  <2>1. spool' = IF spool = s THEN NoSession ELSE spool
    OBVIOUS
  <2> QED
    BY <2>1, TornDownFacts
<1> DEFINE f == [ses EXCEPT ![s] = x]
<1>2. /\ f \in [Session -> SesSet] /\ f[s] # GoneSession
      /\ \A t \in Session : t # s => f[t] = ses[t]
      /\ leases' = Cardinality(RunningIn(f))
      /\ RefInv(f, build', spool')
      /\ \A t \in Session : SesInv(f, build', spool', version', t)
  BY <1>1, SessionsAfter
<1>3. CacheInv(f, build', spool', version', cache', inv', raced')
  BY <1>1, TeardownCache
<1> HIDE DEF f
<1>4. /\ req' \in [Request -> ReqSet] /\ \A u \in Request : u # r => req'[u] = req[u]
      /\ req'[r].pc = "sadmit" /\ req'[r].want = req[r].want
  <2>1. "sadmit" \in Pcs /\ req \in [Request -> ReqSet]
    BY DEF Pcs, Inv, DataOK
  <2> QED
    BY <2>1, MoveFacts
<1>5. DataOK'
  BY <1>4 DEF Inv, DataOK, Awake
<1>6. ReqInv(f, spool', req', listening', locks', version', r)
  BY <1>4 DEF Inv, ReqInv, Awake, HeldBy
<1>7. \A u \in Request : u # r => ReqInv(f, spool', req', listening', locks', version', u)
  BY <1>2, <1>4, <1>5, TeardownBystander
<1>8. Leads(f)
  BY <1>2, <1>3, <1>5, <1>6, <1>7 DEF Leads
<1> QED
  BY <1>1, <1>8, CollectKeeps DEF f

LEMMA SpoolLockedStep == ASSUME Inv, NEW r \in Request, SpoolLocked(r) PROVE Inv'
<1>1. /\ r \notin listening /\ HeldBy(locks, r) /\ req \in [Request -> ReqSet]
      /\ req[r].on \in Session \cup {NoSession} /\ req[r].want <= version
      /\ UNCHANGED <<version, cache, build, locks, leases, inv, raced>>
  <2>1. req \in [Request -> ReqSet] /\ req[r].want <= version
    BY DEF Inv, DataOK, ReqInv
  <2>2. req[r].on \in Session \cup {NoSession}
    BY <2>1 DEF ReqSet
  <2> QED
    BY <2>1, <2>2, ListeningWaits DEF SpoolLocked, At, Holds, HeldBy
<1>2. "sadmit" \in Pcs /\ "sstat" \in Pcs
  BY DEF Pcs
<1>3. ASSUME spool = NoSession, req' = Moves(r, "sadmit"), UNCHANGED <<ses, spool, listening>>
      PROVE  Inv'
  <2>1. /\ req' \in [Request -> ReqSet] /\ \A u \in Request : u # r => req'[u] = req[u]
        /\ req'[r].pc = "sadmit" /\ req'[r].want = req[r].want
    BY <1>1, <1>2, <1>3, MoveFacts
  <2>2. ReqInv(ses, spool, req', listening', locks', version, r)
    BY <1>1, <1>3, <2>1 DEF ReqInv
  <2> QED
    BY <1>1, <1>3, <2>1, <2>2, QuietRequestStep
<1>4. ASSUME spool # NoSession, listening' = Awake({spool}), spool' = NoSession,
             req' = Moves(r, "sadmit"), ses' = Collect(TornDown(spool))
      PROVE  Inv'
  <2>1. spool \in Session /\ ses[spool] # GoneSession
    BY <1>4, RegisteredExists
  <2>2. Moves(r, "sadmit") = MovesOn(r, "sadmit", req[r].on)
    BY <1>1 DEF Moves, MovesOn, ReqSet
  <2> QED
    BY <1>1, <1>4, <2>1, <2>2, ReplacedSpoolStep
<1>5. ASSUME spool # NoSession, req' = MovesOn(r, "sstat", spool), UNCHANGED <<ses, spool, listening>>
      PROVE  Inv'
  <2>1. spool \in Session /\ ses[spool] # GoneSession
    BY <1>5, RegisteredExists
  <2>2. /\ req' \in [Request -> ReqSet] /\ \A u \in Request : u # r => req'[u] = req[u]
        /\ req'[r].pc = "sstat" /\ req'[r].want = req[r].want /\ req'[r].on = spool
    BY <1>1, <1>2, <1>5, <2>1, MoveFacts
  <2>3. ReqInv(ses, spool, req', listening', locks', version, r)
    BY <1>1, <1>5, <2>1, <2>2 DEF ReqInv
  <2> QED
    BY <1>1, <1>5, <2>2, <2>3, QuietRequestStep
<1> QED
  BY <1>3, <1>4, <1>5 DEF SpoolLocked

LEMMA SpoolStatStep == ASSUME Inv, NEW r \in Request, SpoolStat(r) PROVE Inv'
<1> DEFINE s == req[r].on
<1>1. /\ req[r].pc = "sstat" /\ r \notin listening
      /\ UNCHANGED <<version, cache, build, leases, inv, raced>>
  BY ListeningWaits DEF SpoolStat, At
<1>2. /\ s \in Session /\ ses[s] # GoneSession /\ HeldBy(locks, r)
      /\ spool = NoSession \/ spool = s
      /\ req \in [Request -> ReqSet]
  BY <1>1 DEF Inv, DataOK, ReqInv
<1>3. ASSUME req' = Follows(r, s), locks' = Unlock(r), UNCHANGED <<ses, spool, listening>>
      PROVE  Inv'
  <2>1. Follows(r, s) \in [Request -> ReqSet] /\ \A u \in Request : u # r => Follows(r, s)[u] = req[u]
    BY <1>2, MoveFacts
  <2>2. ReqInv(ses, spool, Follows(r, s), listening, locks', version, r)
    BY <1>1, <1>2, QuietMoves
  <2> QED
    BY <1>1, <1>3, <2>1, <2>2, QuietRequestStep
<1>4. ASSUME listening' = Awake({s}), spool' = IF spool = s THEN NoSession ELSE spool,
             req' = MovesOn(r, "sadmit", NoSession), UNCHANGED locks, ses' = Collect(TornDown(s))
      PROVE  Inv'
  BY <1>1, <1>2, <1>4, ReplacedSpoolStep
<1> QED
  BY <1>3, <1>4 DEF SpoolStat

LEMMA AdmitSpoolStep == ASSUME Inv, NEW r \in Request, AdmitSpool(r) PROVE Inv'
<1> DEFINE v == req[r].want
           x == NewSession("spool", v)
<1>1. PICK s \in Free :
         ses' = [ses EXCEPT ![s] = x] /\ spool' = s /\ req' = Follows(r, s)
  BY DEF AdmitSpool
<1>2. /\ leases' = leases + 1 /\ locks' = Unlock(r)
      /\ UNCHANGED <<version, cache, build, listening, inv, raced>>
      /\ inv.pc \in {"idle", "owed"} /\ req[r].pc = "sadmit"
  BY DEF AdmitSpool, Fence, At
<1>3. s \in Session /\ ses[s] = GoneSession /\ s # build /\ s # NoSession
  BY <1>1, RegisteredExists, SessionAssumption DEF Free
<1>4. /\ r \notin listening /\ req \in [Request -> ReqSet] /\ locks \in [Keys -> Seq(Request)]
      /\ spool = NoSession /\ HeldBy(locks, r) /\ ses \in [Session -> SesSet]
  BY <1>2, ListeningWaits DEF Inv, DataOK, ReqInv
<1>5. v \in Versions /\ v <= version /\ version \in Nat /\ v \in Nat /\ 1 <= version
  <2>1. v \in Versions
    BY <1>4 DEF ReqSet
  <2>2. v <= version /\ version \in Versions
    BY DEF Inv, DataOK, ReqInv
  <2>3. Versions \subseteq Nat \ {0}
    BY ConstantFacts
  <2> HIDE DEF v
  <2> QED
    BY <2>1, <2>2, <2>3
<1>6. /\ x \in SesSet /\ x.kind = "spool" /\ x.ver = v /\ x.st = "new" /\ x.err = FALSE
      /\ x.done = FALSE /\ x # GoneSession /\ ~CanPublish(x)
  BY <1>5 DEF NewSession, SesSet, States, GoneSession, CanPublish
<1> HIDE DEF x, v
<1> DEFINE f == [ses EXCEPT ![s] = x]
<1>7. f \in [Session -> SesSet] /\ f[s] = x /\ \A t \in Session : t # s => f[t] = ses[t]
  BY <1>3, <1>4, <1>6
<1>8. leases' = Cardinality(RunningIn(f))
  <2>1. ses[s].st = "gone"
    BY <1>3 DEF GoneSession
  <2> QED
    BY <1>2, <1>3, <1>6, <2>1, RunningAfter
<1> HIDE DEF f
<1>9. /\ req' \in [Request -> ReqSet] /\ \A u \in Request : u # r => req'[u] = req[u]
      /\ req'[r].pc = "stream" /\ req'[r].on = s /\ req'[r].want = 1
  BY <1>1, <1>3, <1>4, MoveFacts
<1>10. /\ locks' \in [Keys -> Seq(Request)]
       /\ \A u \in Request : u # r => ~HeldBy(locks, u)
  BY <1>2, <1>4, UnlockFacts DEF HeldBy
<1>11. DataOK'
  BY <1>1, <1>2, <1>3, <1>9, <1>10 DEF Inv, DataOK
<1>12. \A u \in Request : ReqInv(f, spool', req', listening', locks', version', u)
  <2>1. ReqInv(f, spool', req', listening', locks', version', r)
    BY <1>1, <1>2, <1>3, <1>4, <1>5, <1>6, <1>7, <1>9 DEF ReqInv
  <2>2. \A t \in Session : ses[t] # GoneSession => f[t] = ses[t]
    BY <1>3, <1>7
  <2>3. version <= version'
    BY <1>2, <1>5
  <2>4. ASSUME NEW u \in Request, u # r PROVE ReqInv(f, spool', req', listening', locks', version', u)
    <3>1. u \in listening' => u \in listening /\ f[req[u].on] = ses[req[u].on]
      BY <1>2, <2>2 DEF Inv, ReqInv
    <3> QED
      BY <1>9, <1>10, <1>11, <2>2, <2>3, <2>4, <3>1, Bystander
  <2> QED
    BY <2>1, <2>4
<1>13. RefInv(f, build', spool')
  BY <1>1, <1>2, <1>3, <1>6, <1>7 DEF RefInv, Inv, DataOK
<1>14. \A t \in Session : SesInv(f, build', spool', version', t)
  <2> SUFFICES ASSUME NEW t \in Session PROVE SesInv(f, build', spool', version', t)
    OBVIOUS
  <2>1. CASE t = s
    BY <1>1, <1>2, <1>5, <1>6, <1>7, <2>1 DEF SesInv
  <2>2. CASE t # s
    <3>1. SesInv(ses, build, NoSession, version, t) /\ f[t] = ses[t] /\ t # NoSession
      BY <1>4, <1>7, <2>2, SessionAssumption DEF Inv
    <3> QED
      BY <1>2, <3>1 DEF SesInv
  <2> QED
    BY <2>1, <2>2
<1>15. CacheInv(f, build', spool', version', cache', inv', raced')
  <2>1. \A t \in Session : CanPublish(f[t]) => f[t] = ses[t]
    BY <1>6, <1>7
  <2> QED
    BY <1>2, <2>1 DEF Inv, DataOK, CacheInv
<1>16. Leads(f)
  BY <1>7, <1>8, <1>11, <1>12, <1>13, <1>14, <1>15 DEF Leads
<1> QED
  BY <1>1, <1>16, PlainKeeps DEF f

----------------------------------------------------------------------------
\* Invalidation

\* A step that leaves sessions and requests alone
LEMMA OutsideStep ==
    ASSUME Inv, DataOK', version <= version',
           UNCHANGED <<build, spool, ses, locks, req, listening, leases, raced>>,
           CacheInv(ses, build, spool, version', cache', inv', raced)
    PROVE  Inv'
<1>1. version \in Nat /\ version' \in Nat
  BY ConstantFacts DEF Inv, DataOK
<1>2. \A r \in Request : ReqInv(ses, spool', req', listening', locks', version', r)
  BY Bystander
<1>3. \A s \in Session : SesInv(ses, build', spool', version', s)
  <2> SUFFICES ASSUME NEW s \in Session PROVE SesInv(ses, build', spool', version', s)
    OBVIOUS
  <2>1. SesInv(ses, build, spool, version, s) /\ ses[s] \in SesSet
    BY SesFacts
  <2>2. ses[s].ver \in Nat
    BY <2>1, ConstantFacts DEF SesSet
  <2> QED
    BY <1>1, <2>1, <2>2 DEF SesInv
<1>4. Leads(ses)
  BY <1>2, <1>3 DEF Leads, Inv
<1> QED
  BY <1>4, PlainKeeps

LEMMA OutsideSteps ==
    ASSUME Inv, Evict \/ Overwrite \/ Drained \/ UnlinkCache
    PROVE  Inv'
<1>1. version \in Versions /\ version \in Nat /\ CacheInv(ses, build, spool, version, cache, inv, raced)
  BY ConstantFacts DEF Inv, DataOK
<1>2. CASE Evict
  <2>1. DataOK' /\ version <= version'
    BY <1>1, <1>2 DEF Evict, Inv, DataOK, Keys
  <2>2. CacheInv(ses, build, spool, version', cache', inv', raced)
    BY <1>1, <1>2 DEF Evict, CacheInv
  <2> QED
    BY <1>2, <2>1, <2>2, OutsideStep DEF Evict
<1>3. CASE Overwrite
  <2>1. version' \in Versions /\ version <= version'
    BY <1>1, <1>3, SizeAssumption DEF Overwrite, Versions
  <2>2. inv'.pc = "owed" /\ inv'.target = inv.target
    BY <1>3 DEF Overwrite, Inv, DataOK
  <2>3. DataOK'
    BY <1>3, <2>1 DEF Overwrite, Inv, DataOK
  <2>4. CacheInv(ses, build, spool, version', cache', inv', raced)
    BY <1>1, <1>3, <2>2 DEF Overwrite, CacheInv
  <2> QED
    BY <1>3, <2>1, <2>3, <2>4, OutsideStep DEF Overwrite
<1>4. CASE Drained
  <2>1. DataOK' /\ version <= version' /\ inv'.pc = "unlink"
    BY <1>1, <1>4 DEF Drained, Inv, DataOK
  <2>2. CacheInv(ses, build, spool, version', cache', inv', raced)
    BY <1>1, <1>4, <2>1 DEF Drained, CacheInv
  <2> QED
    BY <1>4, <2>1, <2>2, OutsideStep DEF Drained
<1>5. CASE UnlinkCache
  <2>1. DataOK' /\ version <= version' /\ inv'.pc \in {"temps", "idle"}
    BY <1>1, <1>5 DEF UnlinkCache, Inv, DataOK, Keys
  <2>2. \/ build = NoSession /\ spool = NoSession /\ cache' = 0
        \/ ~(build = NoSession /\ spool = NoSession) /\ inv'.pc = "idle" /\ cache' = cache
    BY <1>5 DEF UnlinkCache, Inv, DataOK
  <2>3. inv.pc = "unlink" /\ version' = version
    BY <1>5 DEF UnlinkCache
  <2>4. CacheInv(ses, build, spool, version', cache', inv', raced)
    BY <1>1, <2>1, <2>2, <2>3 DEF CacheInv
  <2> QED
    BY <1>5, <2>1, <2>4, OutsideStep DEF UnlinkCache
<1> QED
  BY <1>2, <1>3, <1>4, <1>5

LEMMA RaiseFenceStep == ASSUME Inv, RaiseFence PROVE Inv'
<1> DEFINE f == Abort({build})
<1>1. /\ inv' = [pc |-> "settle", target |-> build] /\ ses' = f /\ listening' = Awake({build})
      /\ UNCHANGED <<version, cache, build, spool, locks, req, leases, raced>>
  BY DEF RaiseFence
<1>2. /\ f \in [Session -> SesSet]
      /\ \A s \in Session :
            /\ f[s].ver = ses[s].ver
            /\ (f[s] = GoneSession) = (ses[s] = GoneSession)
            /\ s # build => f[s] = ses[s]
            /\ CanPublish(f[s]) => CanPublish(ses[s])
      /\ RunningIn(f) = RunningIn(ses)
      /\ RefInv(f, build, spool)
      /\ \A b : \A s \in Session : SesInv(f, b, spool, version, s)
  BY AbortFacts
<1> HIDE DEF f
<1>3. DataOK'
  BY <1>1 DEF Inv, DataOK, Awake
<1>4. \A u \in Request : ReqInv(f, spool', req', listening', locks', version', u)
  BY <1>1, <1>2, <1>3, AbortBystander
<1>5. CacheInv(f, build', spool', version', cache', inv', raced')
  BY <1>1, <1>2 DEF Inv, DataOK, CacheInv
<1>6. Leads(f)
  BY <1>1, <1>2, <1>3, <1>4, <1>5 DEF Leads, Inv
<1> QED
  BY <1>1, <1>6, PlainKeeps

\* The fenced invalidation tears the spool down; no build may be left, unless one
\* has outlived the five seconds.
LEMMA TearDownSpoolStep ==
    ASSUME Inv, TearDownSpool, raced' \in BOOLEAN, ~raced' => ~raced /\ build = NoSession
    PROVE  Inv'
<1>1. /\ inv' = [pc |-> "drain", target |-> NoSession]
      /\ UNCHANGED <<version, cache, build, locks, req, leases>>
      /\ spool' = NoSession /\ listening' = Awake({spool})
      /\ ses' = Collect(IF spool = NoSession THEN ses ELSE TornDown(spool))
  BY DEF TearDownSpool
<1>2. DataOK'
  BY <1>1 DEF Inv, DataOK, Awake
<1>3. CacheInv(ses, build, spool, version, cache, inv, raced) /\ version \in Nat
  BY ConstantFacts DEF Inv, DataOK
<1>4. CASE spool = NoSession
  <2>1. \A u \in Request : u \in listening' => u \in listening
    BY <1>1 DEF Awake
  <2>2. \A u \in Request : ReqInv(ses, spool', req', listening', locks', version', u)
    BY <1>1, <1>2, <1>3, <1>4, <2>1, Bystander
  <2>3. CacheInv(ses, build', spool', version', cache', inv', raced')
    BY <1>1, <1>3 DEF CacheInv
  <2>4. Leads(ses)
    BY <1>1, <1>2, <1>4, <2>2, <2>3 DEF Leads, Inv
  <2> QED
    BY <1>1, <1>4, <2>4, CollectKeeps
<1>5. CASE spool # NoSession
  <2>1. spool \in Session /\ ses[spool] # GoneSession
    BY <1>5, RegisteredExists
  <2>2. PICK x : TornDown(spool) = [ses EXCEPT ![spool] = x] /\ Becomes(spool, x)
    BY <1>1, <2>1, TornDownFacts
  <2> DEFINE f == [ses EXCEPT ![spool] = x]
  <2>3. /\ f \in [Session -> SesSet] /\ f[spool] = x /\ f[spool] # GoneSession
        /\ \A t \in Session : t # spool => f[t] = ses[t]
        /\ leases' = Cardinality(RunningIn(f))
        /\ RefInv(f, build', spool')
        /\ \A t \in Session : SesInv(f, build', spool', version', t)
    BY <1>1, <2>1, <2>2, SessionsAfter
  <2> HIDE DEF f
  <2>4. \A u \in Request : ReqInv(f, spool', req', listening', locks', version', u)
    BY <1>1, <1>2, <2>1, <2>3, TeardownBystander
  <2>5. \A t \in Session : CanPublish(f[t]) => CanPublish(ses[t])
    BY <2>2, <2>3 DEF Becomes
  <2>6. CacheInv(f, build', spool', version', cache', inv', raced')
    BY <1>1, <1>3, <2>5 DEF CacheInv
  <2>7. Leads(f)
    BY <1>2, <2>3, <2>4, <2>6 DEF Leads
  <2> QED
    BY <1>1, <1>5, <2>2, <2>7, CollectKeeps DEF f
<1> QED
  BY <1>4, <1>5

LEMMA SettledSteps == ASSUME Inv, BuildSettled \/ FiveSeconds PROVE Inv'
<1>1. CASE BuildSettled
  <2>1. raced' = raced /\ raced \in BOOLEAN
    BY <1>1 DEF BuildSettled, Inv, DataOK
  <2>2. ~raced => build = NoSession
    BY <1>1 DEF BuildSettled, Inv, RefInv, CacheInv
  <2> QED
    BY <1>1, <2>1, <2>2, TearDownSpoolStep DEF BuildSettled
<1>2. CASE FiveSeconds
  BY <1>2, TearDownSpoolStep DEF FiveSeconds
<1> QED
  BY <1>1, <1>2

LEMMA UnlinkTempsStep == ASSUME Inv, UnlinkTemps PROVE Inv'
<1> DEFINE f == [s \in Session |-> [ses[s] EXCEPT !.file = FALSE]]
<1>1. /\ inv.pc = "temps" /\ ses' = f /\ inv' = [inv EXCEPT !.pc = "idle"]
      /\ UNCHANGED <<version, cache, build, spool, locks, req, listening, leases, raced>>
  BY DEF UnlinkTemps
<1>2. \A s \in Session : ses[s] \in SesSet /\ SesInv(ses, build, spool, version, s)
  BY SesFacts
<1>3. \A s \in Session :
         /\ f[s] \in SesSet /\ f[s].kind = ses[s].kind /\ f[s].ver = ses[s].ver
         /\ f[s].st = ses[s].st /\ f[s].bytes = ses[s].bytes /\ f[s].err = ses[s].err
         /\ f[s].done = ses[s].done /\ f[s].file = FALSE
  BY <1>2 DEF SesSet
<1>4. f \in [Session -> SesSet]
  BY <1>3
<1>5. \A s \in Session : ses[s] = GoneSession => f[s] = GoneSession
  <2>1. GoneSession.file = FALSE /\ GoneSession = [x \in DOMAIN GoneSession |-> GoneSession[x]]
    BY DEF GoneSession
  <2>2. [GoneSession EXCEPT !.file = FALSE] = GoneSession
    BY <2>1
  <2> QED
    BY <2>2
<1> HIDE DEF f
<1>6. \A s \in Session : ses[s] # GoneSession => f[s] # GoneSession
  BY <1>2, <1>3 DEF SesInv, GoneSession
<1>7. RunningIn(f) = RunningIn(ses)
  BY <1>3 DEF RunningIn
<1>8. RefInv(f, build', spool')
  BY <1>1, <1>3 DEF Inv, DataOK, RefInv
<1>9. \A s \in Session : SesInv(f, build', spool', version', s)
  BY <1>1, <1>2, <1>3, <1>5 DEF SesInv
<1>10. DataOK' /\ inv'.pc = "idle"
  BY <1>1 DEF Inv, DataOK
<1>11. \A u \in Request : ReqInv(f, spool', req', listening', locks', version', u)
  <2> SUFFICES ASSUME NEW u \in Request PROVE ReqInv(f, spool', req', listening', locks', version', u)
    OBVIOUS
  <2>1. version <= version'
    BY <1>1, ConstantFacts DEF Inv, DataOK
  <2>2. u \in listening =>
           /\ f[req[u].on].st \notin {"ended", "gone"}
           /\ f[req[u].on].bytes = ses[req[u].on].bytes
           /\ f[req[u].on].err => f[req[u].on].st = "clean"
    BY <1>3 DEF Inv, ReqInv, RunningIn
  <2> QED
    BY <1>1, <1>6, <1>10, <2>1, <2>2, Bystander
<1>12. CacheInv(f, build', spool', version', cache', inv', raced')
  <2>1. \A s \in Session : CanPublish(f[s]) => CanPublish(ses[s])
    BY <1>3 DEF CanPublish
  <2> QED
    BY <1>1, <1>10, <2>1 DEF Inv, CacheInv
<1>13. Leads(f)
  BY <1>1, <1>4, <1>7, <1>8, <1>9, <1>10, <1>11, <1>12 DEF Leads, Inv
<1> QED
  BY <1>1, <1>13, PlainKeeps

----------------------------------------------------------------------------
\* The theorems

LEMMA InitInv == Init => Inv
<1> SUFFICES ASSUME Init PROVE Inv
  OBVIOUS
<1> USE DEF Init
<1>1. /\ ses \in [Session -> SesSet] /\ \A s \in Session : ses[s] = GoneSession
      /\ req \in [Request -> ReqSet] /\ \A r \in Request : req[r] = OverRequest
  BY ConstantFacts
<1>2. DataOK
  <2>1. locks \in [Keys -> Seq(Request)]
    OBVIOUS
  <2> QED
    BY <1>1, <2>1, ConstantFacts DEF DataOK, Keys
<1>3. leases = Cardinality(RunningIn(ses))
  <2>1. RunningIn(ses) = {}
    BY <1>1 DEF RunningIn, GoneSession
  <2> QED
    BY <2>1, FS_EmptySet
<1>4. RefInv(ses, build, spool)
  BY DEF RefInv
<1>5. \A s \in Session : SesInv(ses, build, spool, version, s)
  BY <1>1 DEF SesInv, GoneSession
<1>6. \A r \in Request : ReqInv(ses, spool, req, listening, locks, version, r)
  BY <1>1 DEF ReqInv, OverRequest
<1>7. CacheInv(ses, build, spool, version, cache, inv, raced)
  BY <1>1 DEF CacheInv, CanPublish, GoneSession
<1> QED
  BY <1>1, <1>2, <1>3, <1>4, <1>5, <1>6, <1>7 DEF Inv

LEMMA NextInv == Inv /\ [Next]_vars => Inv'
<1> SUFFICES ASSUME Inv, [Next]_vars PROVE Inv'
  OBVIOUS
<1>1. CASE UNCHANGED vars
  <2>1. DataOK'
    BY <1>1 DEF Inv, DataOK, vars
  <2> QED
    BY <1>1, <2>1, ConstantFacts, OutsideStep DEF Inv, DataOK, vars
<1>2. ASSUME NEW r \in Request, RequestStep(r) PROVE Inv'
  BY <1>2, EnterStep, RefusedSteps, AbortSettledStep, LockedStep, AdmitTooLargeStep,
     AdmitBuildStep, ReadableStep, SpoolLockedStep, SpoolStatStep, AdmitSpoolStep, PumpStep
     DEF RequestStep
<1>3. ASSUME NEW r \in Request, ReadMetadata(r) \/ Disconnect(r) PROVE Inv'
  BY <1>3, ReadMetadataStep, RefusedSteps
<1>4. ASSUME NEW s \in Session, SessionStep(s) PROVE Inv'
  BY <1>4, CreateFileStep, FetchedStep, ChunkStep, FailsStep, CheckStep, PublishStep,
     CleanStep, DropStep DEF SessionStep
<1>5. CASE InvalidationStep
  BY <1>5, RaiseFenceStep, SettledSteps, OutsideSteps, UnlinkTempsStep DEF InvalidationStep
<1>6. CASE Grace \/ Evict \/ Overwrite
  BY <1>6, GraceStep, OutsideSteps
<1> QED
  BY <1>1, <1>2, <1>3, <1>4, <1>5, <1>6 DEF Next

\* The inductive invariant holds in every reachable state.
THEOREM Invariant == Spec => []Inv
BY InitInv, NextInv, PTL DEF Spec

\* Every variable keeps its type, every path out of a session releases its lease
\* exactly once, and a build that is over has left no temporary file
\* (runBuildSession() and runSpoolSession(), their catch and finally).
THEOREM SessionsCleanUp == Spec => []WellFormed
<1>1. Inv => WellFormed
  <2> SUFFICES ASSUME Inv PROVE WellFormed
    OBVIOUS
  <2>1. RunningIn(ses) = Running
    BY DEF RunningIn, Running
  <2>2. LeasesOwned
    BY <2>1 DEF Inv, LeasesOwned
  <2>3. NoOrphanBuild
    BY DEF Inv, SesInv, NoOrphanBuild
  <2>4. leases \in Nat
    <3>1. IsFiniteSet(RunningIn(ses))
      BY SessionAssumption, FS_Subset DEF RunningIn
    <3> QED
      BY <3>1, FS_CardinalityType DEF Inv
  <2>5. TypeOK
    BY <2>4 DEF Inv, DataOK, TypeOK, SesSet, States, ReqSet
  <2> QED
    BY <2>2, <2>3, <2>5 DEF WellFormed
<1> QED
  BY <1>1, Invariant, PTL

\* A build that is neither aborted nor over is the one in buildSessions, for any
\* number of requests with whatever versions (getOrCreateBuildSession()).
THEOREM OneLiveBuild == Spec => []LiveBuildIsRegistered
<1>1. Inv => LiveBuildIsRegistered
  BY DEF Inv, SesInv, Running, LiveBuildIsRegistered
<1> QED
  BY <1>1, Invariant, PTL

\* No follower waits for an event that has been emitted already
\* (createFollowerReadable(), waitForSessionReadable()).
THEOREM NobodyMissesAnEvent == Spec => []NoMissedEvent
<1>1. Inv => NoMissedEvent
  BY DEF Inv, DataOK, ReqInv, RunningIn, Running, NoMissedEvent
<1> QED
  BY <1>1, Invariant, PTL

\* Unless a build got past it in one of the three known ways, an invalidation that
\* has returned leaves nothing but the current version at the cache path
\* (withFileInvalidation(), unlinkAllCacheFiles()).
THEOREM InvalidationIsEffective == Spec => []CacheCurrent
<1>1. Inv => CacheCurrent
  BY DEF Inv, CacheInv, CacheCurrent
<1> QED
  BY <1>1, Invariant, PTL
============================================================================
