-------------------------- MODULE FolderTreeProofs --------------------------
(***************************************************************************)
(* Theorems about FolderTree, for every finite set of folders, every set   *)
(* of files, names and handlers and every tree to begin with: the types,   *)
(* the row locks, that two moves never make two folders each other's       *)
(* parent, and that handlers which do not commit over each other keep a    *)
(* tree of live names.                                                     *)
(***************************************************************************)
EXTENDS FolderTree, QueueLemmas

RowSet == [parent : Folder \cup {Root, Absent}, name : Name \cup {NoName}, del : {0} \cup Batch]
NameSet == [scope : Folder \cup {Root, Absent}, name : Name \cup {NoName}, active : BOOLEAN]
Column == {"parent", "name", "del"}
Points == {"idle", "insert", "reload", "update", "lockself", "lockparent", "check", "save",
           "mark", "unmark"}
TxSet == [pc : Points, f : Node \cup {Root}, to : Folder \cup {Root}, name : Name \cup {NoName},
          snap : RowSet \cup {<<>>}, cols : SUBSET Column, ids : SUBSET Folder,
          batch : {0} \cup Batch, alone : BOOLEAN]

\* The types, with those of a handler's snapshot and columns
Typed ==
    /\ row \in [Node -> RowSet]
    /\ dn \in [Node -> NameSet]
    /\ lock \in [Folder -> Handler \cup {Nobody}]
    /\ tx \in [Handler -> TxSet]
    /\ raced \in BOOLEAN

\* What a handler works on at each of its points
Subject(t) ==
    /\ tx[t].pc \in {"reload", "update"} => tx[t].snap \in RowSet /\ tx[t].f \in Node
    /\ tx[t].pc \in {"lockself", "lockparent", "check", "save"} => tx[t].f \in Folder
    /\ tx[t].pc = "lockparent" => tx[t].to \in Folder

\* A move that goes on to save holds its rows, and the check still is true of them.
MoveHolds(t) ==
    /\ tx[t].pc \in {"lockparent", "check", "save"} => lock[tx[t].f] = t
    /\ tx[t].pc \in {"check", "save"} /\ tx[t].to \in Folder =>
          lock[tx[t].to] = t
    /\ tx[t].pc = "save" /\ tx[t].to \in Folder => row[tx[t].to].parent # tx[t].f

LockedExist == \A f \in Folder : lock[f] # Nobody => Exists(f)

Inv ==
    /\ Typed
    /\ \A t \in Handler : Subject(t) /\ MoveHolds(t)
    /\ LocksHeldByMoves
    /\ LockedExist

----------------------------------------------------------------------------
\* Lemmas on the operators

LEMMA TypedTypeOK == Typed => TypeOK
BY DEF Typed, TypeOK, RowSet, NameSet, TxSet, Points

LEMMA IdleType == Idle \in TxSet
BY DEF Idle, TxSet, Points

\* Writing some columns of a row gives a row, and writing none the same row.
LEMMA Columns ==
    ASSUME NEW x \in RowSet, NEW y \in RowSet, NEW cols \in SUBSET Column
    PROVE  LET z == [c \in DOMAIN x |-> IF c \in cols THEN y[c] ELSE x[c]]
           IN  z \in RowSet /\ (cols = {} => z = x)
<1> DEFINE z == [c \in DOMAIN x |-> IF c \in cols THEN y[c] ELSE x[c]]
<1>1. DOMAIN x = Column /\ DOMAIN y = Column
  BY DEF RowSet, Column
<1>2. z = [parent |-> z.parent, name |-> z.name, del |-> z.del]
  BY <1>1 DEF Column
<1>3. /\ z.parent \in Folder \cup {Root, Absent} /\ z.name \in Name \cup {NoName}
      /\ z.del \in {0} \cup Batch
  BY <1>1 DEF RowSet, Column
<1>4. z \in RowSet
  BY <1>2, <1>3 DEF RowSet
<1>5. ASSUME cols = {} PROVE z = x
  <2>1. z.parent = x.parent /\ z.name = x.name /\ z.del = x.del
    BY <1>1, <1>5 DEF Column
  <2>2. x = [parent |-> x.parent, name |-> x.name, del |-> x.del]
    BY DEF RowSet
  <2> HIDE DEF z
  <2> QED
    BY <1>2, <2>1, <2>2
<1> QED
  BY <1>4, <1>5

\* The parent is an ancestor.
LEMMA ParentIsAncestor ==
    ASSUME NEW f \in Folder, row[f].parent \in Folder
    PROVE  row[f].parent \in Ancestors(f)
BY DEF Ancestors

----------------------------------------------------------------------------
\* Handlers that begin and end

\* A handler that begins holds nothing, whatever it is going to do.
LEMMA BeginKeeps ==
    ASSUME Inv, NEW t \in Handler, NEW op, NEW new \in TxSet, Begins(t, op, new),
           new.pc \notin {"lockparent", "check", "save"},
           new.pc \in {"reload", "update"} => new.snap \in RowSet /\ new.f \in Node,
           new.pc = "lockself" => new.f \in Folder
    PROVE  Inv'
<1>1. /\ tx[t].pc = "idle" /\ tx' = [tx EXCEPT ![t] = new]
      /\ row' = row /\ dn' = dn /\ lock' = lock /\ raced' = raced
  BY DEF Begins
<1>2. tx' \in [Handler -> TxSet] /\ tx'[t] = new /\ \A u \in Handler : u # t => tx'[u] = tx[u]
  BY <1>1 DEF Inv, Typed
<1>3. \A f \in Folder : lock[f] # t
  BY <1>1, NobodyAssumption DEF Inv, LocksHeldByMoves
<1>4. Typed'
  BY <1>1, <1>2 DEF Inv, Typed
<1>5. \A u \in Handler : Subject(u)'
  BY <1>2 DEF Inv, Subject
<1>6. \A u \in Handler : MoveHolds(u)'
  BY <1>1, <1>2 DEF Inv, MoveHolds
<1>7. LocksHeldByMoves' /\ LockedExist'
  BY <1>1, <1>2, <1>3, NobodyAssumption DEF Inv, Typed, LocksHeldByMoves, LockedExist, Exists
<1> QED
  BY <1>4, <1>5, <1>6, <1>7 DEF Inv

\* Handler t has ended and given its locks back.
Ended(t) ==
    /\ tx' \in [Handler -> TxSet] /\ tx'[t] = Idle
    /\ \A u \in Handler \ {t} : /\ tx'[u].pc = tx[u].pc /\ tx'[u].f = tx[u].f
                                /\ tx'[u].to = tx[u].to /\ tx'[u].snap = tx[u].snap
    /\ lock' = Released(t)
    /\ raced' \in BOOLEAN

LEMMA CommitsEnds == ASSUME Inv, NEW t \in Handler, Commits(t) PROVE Ended(t)
<1>1. \A x \in TxSet : [x EXCEPT !.alone = FALSE] \in TxSet
  BY DEF TxSet
<1>2. tx \in [Handler -> TxSet] /\ raced \in BOOLEAN
  BY DEF Inv, Typed
<1>3. tx' \in [Handler -> TxSet] /\ tx'[t] = Idle
  BY <1>1, <1>2, IdleType DEF Commits
<1>4. \A u \in Handler \ {t} : /\ tx'[u].pc = tx[u].pc /\ tx'[u].f = tx[u].f
                               /\ tx'[u].to = tx[u].to /\ tx'[u].snap = tx[u].snap
  BY <1>2 DEF Commits, TxSet
<1>5. raced' \in BOOLEAN /\ lock' = Released(t)
  BY DEF Commits
<1> QED
  BY <1>3, <1>4, <1>5 DEF Ended

\* Nothing that another handler has locked is moved, so what a move has checked
\* under its locks stays true until it saves.
LEMMA EndKeeps ==
    ASSUME Inv, NEW t \in Handler, Ended(t), row' \in [Node -> RowSet], dn' \in [Node -> NameSet],
           \A g \in Folder : lock[g] \notin {Nobody, t} => row'[g].parent = row[g].parent
    PROVE  Inv'
<1> USE NobodyAssumption
<1>1. /\ lock' \in [Folder -> Handler \cup {Nobody}]
      /\ \A g \in Folder : lock'[g] = IF lock[g] = t THEN Nobody ELSE lock[g]
  BY DEF Inv, Typed, Ended, Released
<1>2. Typed'
  BY <1>1 DEF Ended, Typed
<1>3. \A u \in Handler : Subject(u)'
  BY DEF Inv, Subject, Ended, Idle
<1>4. \A u \in Handler : MoveHolds(u)'
  <2> SUFFICES ASSUME NEW u \in Handler PROVE MoveHolds(u)'
    OBVIOUS
  <2>1. CASE u = t
    BY <2>1 DEF Ended, MoveHolds, Idle
  <2>2. CASE u # t
    BY <1>1, <2>2 DEF Inv, Subject, MoveHolds, Ended
  <2> QED
    BY <2>1, <2>2
<1>5. LocksHeldByMoves'
  BY <1>1 DEF Inv, Typed, LocksHeldByMoves, Ended
<1>6. LockedExist'
  BY <1>1 DEF Inv, LockedExist, Exists
<1> QED
  BY <1>2, <1>3, <1>4, <1>5, <1>6 DEF Inv

LEMMA RollbackKeeps == ASSUME Inv, NEW t \in Handler, Rollback(t) PROVE Inv'
<1>1. Ended(t)
  BY IdleType DEF Inv, Typed, Rollback, Ended
<1> QED
  BY <1>1, EndKeeps DEF Inv, Typed, Rollback

----------------------------------------------------------------------------
\* The steps

LEMMA BeginStep ==
    ASSUME Inv, NEW t \in Handler,
           \/ CreateCheck(t) \/ RenameRead(t) \/ FileRead(t)
           \/ MoveBegin(t) \/ DeleteCollect(t) \/ RestoreCollect(t)
    PROVE  Inv'
<1>a. row \in [Node -> RowSet] /\ Folder \subseteq Node
  BY DEF Inv, Typed, Node
<1>1. CASE CreateCheck(t)
  <2>1. PICK p \in Folder \cup {Root}, n \in Name :
             Begins(t, "create", [Idle EXCEPT !.pc = "insert", !.to = p, !.name = n])
    BY <1>1 DEF CreateCheck
  <2> DEFINE new == [Idle EXCEPT !.pc = "insert", !.to = p, !.name = n]
  <2>2. new \in TxSet /\ new.pc = "insert"
    BY IdleType DEF Idle, TxSet, Points
  <2> HIDE DEF new
  <2> QED
    BY <2>1, <2>2, BeginKeeps DEF new
<1>2. CASE RenameRead(t)
  <2>1. PICK f \in Folder, n \in Name :
             Begins(t, "rename", [Idle EXCEPT !.pc = "reload", !.f = f,
                                              !.snap = [row[f] EXCEPT !.name = n]])
    BY <1>2 DEF RenameRead
  <2> DEFINE s == [row[f] EXCEPT !.name = n]
             new == [Idle EXCEPT !.pc = "reload", !.f = f, !.snap = s]
  <2>2. s \in RowSet
    <3>1. row[f] \in RowSet
      BY <1>a
    <3> QED
      BY <3>1 DEF RowSet
  <2> HIDE DEF s
  <2>3. new \in TxSet /\ new.pc = "reload" /\ new.snap = s /\ new.f = f
    BY <1>a, <2>2, IdleType DEF Idle, TxSet, Points
  <2> HIDE DEF new
  <2> QED
    BY <1>a, <2>1, <2>2, <2>3, BeginKeeps DEF new, s
<1>3. CASE FileRead(t)
  <2>1. PICK f \in File, s \in [parent : Folder \cup {Root}, name : Name, del : {0}] :
             Begins(t, "file", [Idle EXCEPT !.pc = "reload", !.f = f, !.snap = s])
    BY <1>3 DEF FileRead
  <2> DEFINE new == [Idle EXCEPT !.pc = "reload", !.f = f, !.snap = s]
  <2>2. s \in RowSet /\ f \in Node
    BY DEF RowSet, Node
  <2>3. new \in TxSet /\ new.pc = "reload" /\ new.snap = s /\ new.f = f
    BY <2>2, IdleType DEF Idle, TxSet, Points
  <2> HIDE DEF new
  <2> QED
    BY <2>1, <2>2, <2>3, BeginKeeps DEF new
<1>4. CASE MoveBegin(t)
  <2>1. PICK f \in Folder, p \in Folder \cup {Root} :
             Begins(t, "move", [Idle EXCEPT !.pc = "lockself", !.f = f, !.to = p])
    BY <1>4 DEF MoveBegin
  <2> DEFINE new == [Idle EXCEPT !.pc = "lockself", !.f = f, !.to = p]
  <2>2. new \in TxSet /\ new.pc = "lockself" /\ new.f = f
    BY <1>a, IdleType DEF Idle, TxSet, Points
  <2> HIDE DEF new
  <2> QED
    BY <2>1, <2>2, BeginKeeps DEF new
<1>5. CASE DeleteCollect(t)
  <2>1. PICK f \in Folder, b \in Batch :
             Begins(t, "delete", [Idle EXCEPT !.pc = "mark", !.f = f, !.ids = Subtree(f),
                                              !.batch = b])
    BY <1>5 DEF DeleteCollect
  <2> DEFINE new == [Idle EXCEPT !.pc = "mark", !.f = f, !.ids = Subtree(f), !.batch = b]
  <2>2. Subtree(f) \in SUBSET Folder
    BY DEF Subtree
  <2>3. new \in TxSet /\ new.pc = "mark"
    BY <1>a, <2>2, IdleType DEF Idle, TxSet, Points
  <2> HIDE DEF new
  <2> QED
    BY <2>1, <2>3, BeginKeeps DEF new
<1>6. CASE RestoreCollect(t)
  <2>1. PICK f \in Folder :
             Begins(t, "restore", [Idle EXCEPT !.pc = "unmark", !.f = f, !.ids = Subtree(f),
                                               !.batch = row[f].del])
    BY <1>6 DEF RestoreCollect
  <2> DEFINE new == [Idle EXCEPT !.pc = "unmark", !.f = f, !.ids = Subtree(f),
                                 !.batch = row[f].del]
  <2>2. Subtree(f) \in SUBSET Folder /\ row[f].del \in {0} \cup Batch
    BY <1>a DEF Subtree, RowSet
  <2>3. new \in TxSet /\ new.pc = "unmark"
    BY <1>a, <2>2, IdleType DEF Idle, TxSet, Points
  <2> HIDE DEF new
  <2> QED
    BY <2>1, <2>3, BeginKeeps DEF new
<1> QED
  BY <1>1, <1>2, <1>3, <1>4, <1>5, <1>6

\* Steps inside a handler: its locks grow, nothing is written.
LEMMA InnerStep ==
    ASSUME Inv, NEW t \in Handler,
           \/ Reload(t) \/ LockSelf(t) \/ LockParent(t) \/ Deadlock(t) \/ MoveCheck(t)
    PROVE  Inv'
<1> USE NobodyAssumption
<1>a. /\ tx \in [Handler -> TxSet] /\ lock \in [Folder -> Handler \cup {Nobody}]
      /\ row \in [Node -> RowSet] /\ Folder \subseteq Node /\ Subject(t) /\ MoveHolds(t)
  BY DEF Inv, Typed, Node
\* t goes from point p to point q and may lock g.
<1>b. ASSUME NEW p \in Points, NEW q \in Points, NEW g \in Folder,
             tx[t].pc = p, tx' = [tx EXCEPT ![t].pc = q], UNCHANGED <<row, dn, raced>>,
             lock' = [lock EXCEPT ![g] = t] \/ lock' = lock, lock[g] \in {Nobody, t},
             lock'[g] = t, Exists(g), g \in {tx[t].f, tx[t].to},
             p \in {"lockself", "lockparent", "check"}, q \in {"lockparent", "check", "save"},
             MoveHolds(t)', Subject(t)'
      PROVE  Inv'
  <2>1. /\ tx' \in [Handler -> TxSet]
        /\ tx'[t].pc = q /\ tx'[t].f = tx[t].f /\ tx'[t].to = tx[t].to
        /\ \A u \in Handler : u # t => tx'[u] = tx[u]
    BY <1>a, <1>b DEF TxSet
  <2>2. /\ lock' \in [Folder -> Handler \cup {Nobody}]
        /\ \A h \in Folder : h # g => lock'[h] = lock[h]
    BY <1>a, <1>b
  <2>3. Typed'
    BY <1>b, <2>1, <2>2 DEF Inv, Typed
  <2>4. ASSUME NEW u \in Handler, u # t PROVE Subject(u)' /\ MoveHolds(u)'
    <3>1. Subject(u) /\ MoveHolds(u)
      BY DEF Inv
    <3>2. \A h \in Folder : lock[h] = u => lock'[h] = u
      BY <1>b, <2>2, <2>4
    <3> QED
      BY <1>b, <2>1, <2>4, <3>1, <3>2 DEF Subject, MoveHolds
  <2>5. LocksHeldByMoves'
    BY <1>b, <2>1, <2>2 DEF Inv, LocksHeldByMoves
  <2>6. LockedExist'
    BY <1>b, <2>2 DEF Inv, LockedExist, Exists
  <2> QED
    BY <1>b, <2>3, <2>4, <2>5, <2>6 DEF Inv
<1>1. CASE Reload(t)
  <2> DEFINE cols == {c \in DOMAIN tx[t].snap : tx[t].snap[c] # row[tx[t].f][c]}
  <2>1. tx[t].pc = "reload" /\ tx' = [tx EXCEPT ![t].pc = "update", ![t].cols = cols]
        /\ UNCHANGED <<row, dn, lock, raced>>
    BY <1>1 DEF Reload, At
  <2>2. cols \in SUBSET Column
    BY <1>a, <2>1 DEF Subject, RowSet, Column
  <2> HIDE DEF cols
  <2>3. /\ tx' \in [Handler -> TxSet] /\ tx'[t].pc = "update"
        /\ tx'[t].snap = tx[t].snap /\ tx'[t].f = tx[t].f
        /\ \A u \in Handler : u # t => tx'[u] = tx[u]
    <3> DEFINE x == [tx[t] EXCEPT !.pc = "update", !.cols = cols]
    <3>1. tx[t] \in TxSet
      BY <1>a
    <3>2. x \in TxSet /\ x.pc = "update" /\ x.snap = tx[t].snap /\ x.f = tx[t].f
      BY <2>2, <3>1 DEF TxSet, Points
    <3>3. tx' = [tx EXCEPT ![t] = x]
      BY <1>a, <2>1
    <3> HIDE DEF x
    <3> QED
      BY <1>a, <3>2, <3>3
  <2>4. Typed'
    BY <2>1, <2>3 DEF Inv, Typed
  <2>5. \A u \in Handler : Subject(u)' /\ MoveHolds(u)'
    BY <1>a, <2>1, <2>3 DEF Inv, Subject, MoveHolds
  <2>6. LocksHeldByMoves' /\ LockedExist'
    BY <1>a, <2>1, <2>3 DEF Inv, LocksHeldByMoves, LockedExist, Exists
  <2> QED
    BY <2>4, <2>5, <2>6 DEF Inv
<1>2. CASE LockSelf(t)
  <2>1. CASE Rollback(t)
    BY <2>1, RollbackKeeps
  <2>2. CASE ~Rollback(t)
    <3> DEFINE q == IF tx[t].to = Root THEN "check" ELSE "lockparent"
               g == tx[t].f
    <3>1. /\ tx[t].pc = "lockself" /\ Live(g) /\ lock' = [lock EXCEPT ![g] = t]
          /\ tx' = [tx EXCEPT ![t].pc = q] /\ UNCHANGED <<row, dn, raced>>
          /\ lock[g] \in {Nobody, t}
      BY <1>2, <2>2 DEF LockSelf, At, Goes, Held
    <3>2. g \in Folder /\ (q = "lockparent" => tx[t].to \in Folder)
      BY <1>a, <3>1 DEF Subject, TxSet
    <3>3. q \in {"check", "lockparent"} /\ (q = "check" => tx[t].to = Root)
      OBVIOUS
    <3>4. tx'[t].pc = q /\ tx'[t].f = g /\ tx'[t].to = tx[t].to
      BY <1>a, <3>1 DEF TxSet
    <3> HIDE DEF q, g
    <3>5. lock'[g] = t /\ Exists(g)
      BY <1>a, <3>1, <3>2 DEF Live
    <3>6. Subject(t)' /\ MoveHolds(t)'
      BY <3>2, <3>3, <3>4, <3>5, RootAssumption DEF Subject, MoveHolds, Node
    <3> QED
      BY <1>b, <3>1, <3>2, <3>3, <3>5, <3>6 DEF Points, g
  <2> QED
    BY <2>1, <2>2
<1>3. CASE LockParent(t)
  <2>1. CASE Rollback(t)
    BY <2>1, RollbackKeeps
  <2>2. CASE ~Rollback(t)
    <3> DEFINE g == tx[t].to
    <3>1. /\ tx[t].pc = "lockparent" /\ Live(g) /\ lock' = [lock EXCEPT ![g] = t]
          /\ tx' = [tx EXCEPT ![t].pc = "check"] /\ UNCHANGED <<row, dn, raced>>
          /\ lock[g] \in {Nobody, t}
      BY <1>3, <2>2 DEF LockParent, At, Goes, Held
    <3>2. g \in Folder /\ tx[t].f \in Folder /\ lock[tx[t].f] = t
      BY <1>a, <3>1 DEF Subject, MoveHolds
    <3>3. tx'[t].pc = "check" /\ tx'[t].f = tx[t].f /\ tx'[t].to = g
      BY <1>a, <3>1 DEF TxSet
    <3> HIDE DEF g
    <3>4. lock'[g] = t /\ lock'[tx[t].f] = t /\ Exists(g)
      BY <1>a, <3>1, <3>2 DEF Live
    <3>5. Subject(t)' /\ MoveHolds(t)'
      BY <3>2, <3>3, <3>4 DEF Subject, MoveHolds
    <3> QED
      BY <1>b, <3>1, <3>2, <3>4, <3>5 DEF Points, g
  <2> QED
    BY <2>1, <2>2
<1>4. CASE Deadlock(t)
  BY <1>4, RollbackKeeps DEF Deadlock
<1>5. CASE MoveCheck(t)
  <2>1. CASE Rollback(t)
    BY <2>1, RollbackKeeps
  <2>2. CASE ~Rollback(t)
    <3> DEFINE f == tx[t].f
               p == tx[t].to
    <3>1. /\ tx[t].pc = "check" /\ (p \in Folder => ~IsDescendantOf(p, f))
          /\ tx' = [tx EXCEPT ![t].pc = "save"] /\ UNCHANGED <<row, dn, raced, lock>>
      BY <1>5, <2>2 DEF MoveCheck, At, Goes
    <3>2. f \in Folder /\ lock[f] = t /\ (p \in Folder => lock[p] = t)
      BY <1>a, <3>1 DEF Subject, MoveHolds
    <3>3. p \in Folder => row[p].parent # f
      BY <3>1, <3>2, ParentIsAncestor DEF IsDescendantOf
    <3>4. tx'[t].pc = "save" /\ tx'[t].f = f /\ tx'[t].to = p
      BY <1>a, <3>1 DEF TxSet
    <3>5. Subject(t)' /\ MoveHolds(t)'
      BY <3>1, <3>2, <3>3, <3>4 DEF Subject, MoveHolds
    <3>6. Exists(f)
      BY <3>2, NobodyAssumption DEF Inv, LockedExist
    <3> QED
      BY <1>b, <3>1, <3>2, <3>5, <3>6 DEF Points
  <2> QED
    BY <2>1, <2>2
<1> QED
  BY <1>1, <1>2, <1>3, <1>4, <1>5

\* Handlers that write: an insert, an update, a move, a deletion, a restore.
LEMMA WriteStep ==
    ASSUME Inv, NEW t \in Handler,
           \/ Insert(t) \/ Update(t) \/ MoveSave(t) \/ DeleteMark(t) \/ RestoreUnmark(t)
    PROVE  Inv'
<1>a. /\ tx \in [Handler -> TxSet] /\ lock \in [Folder -> Handler \cup {Nobody}]
      /\ row \in [Node -> RowSet] /\ dn \in [Node -> NameSet]
      /\ Folder \subseteq Node /\ Subject(t) /\ MoveHolds(t)
  BY DEF Inv, Typed, Node
<1>b. \A p \in Folder \cup {Root, Absent}, n \in Name \cup {NoName} : NameRow(p, n) \in NameSet
  BY DEF NameRow, NameSet
<1>c. \A x \in RowSet, b \in {0} \cup Batch : /\ [x EXCEPT !.del = b] \in RowSet
                                              /\ [x EXCEPT !.del = b].parent = x.parent
  BY DEF RowSet
<1>1. CASE Insert(t)
  <2> DEFINE d == NameRow(tx[t].to, tx[t].name)
             r == [parent |-> tx[t].to, name |-> tx[t].name, del |-> 0]
  <2>1. PICK f \in Folder :
           /\ ~Exists(f)
           /\ \/ Rollback(t)
              \/ row' = [row EXCEPT ![f] = r] /\ dn' = [dn EXCEPT ![f] = d] /\ Commits(t)
    BY <1>1 DEF Insert
  <2>2. CASE Rollback(t)
    BY <2>2, RollbackKeeps
  <2>3. CASE row' = [row EXCEPT ![f] = r] /\ dn' = [dn EXCEPT ![f] = d] /\ Commits(t)
    <3>1. r \in RowSet /\ d \in NameSet
      BY <1>a, <1>b DEF TxSet, RowSet
    <3>2. row' \in [Node -> RowSet] /\ dn' \in [Node -> NameSet]
      BY <1>a, <2>3, <3>1
    <3>3. \A g \in Folder : lock[g] \notin {Nobody, t} => row'[g].parent = row[g].parent
      BY <1>a, <2>1, <2>3 DEF Inv, LockedExist
    <3> QED
      BY <2>3, <3>2, <3>3, CommitsEnds, EndKeeps
  <2> QED
    BY <2>1, <2>2, <2>3
<1>2. CASE Update(t)
  <2> DEFINE f == tx[t].f
             r == [c \in DOMAIN row[f] |-> IF c \in tx[t].cols THEN tx[t].snap[c] ELSE row[f][c]]
             d == NameRow(tx[t].snap.parent, tx[t].snap.name)
  <2>1. /\ tx[t].pc = "update"
        /\ f \in Folder /\ tx[t].cols # {} => lock[f] = Nobody
        /\ \/ Rollback(t)
           \/ row' = [row EXCEPT ![f] = r] /\ dn' = [dn EXCEPT ![f] = d] /\ Commits(t)
    BY <1>2 DEF Update, At
  <2>2. CASE Rollback(t)
    BY <2>2, RollbackKeeps
  <2>3. CASE row' = [row EXCEPT ![f] = r] /\ dn' = [dn EXCEPT ![f] = d] /\ Commits(t)
    <3>1. f \in Node /\ tx[t].snap \in RowSet /\ tx[t].cols \in SUBSET Column /\ row[f] \in RowSet
      BY <1>a, <2>1 DEF Subject, TxSet
    <3>2. r \in RowSet /\ (tx[t].cols = {} => r = row[f])
      BY <3>1, Columns
    <3>3. d \in NameSet
      BY <1>b, <3>1 DEF RowSet
    <3> HIDE DEF r, d, f
    <3>4. row' \in [Node -> RowSet] /\ dn' \in [Node -> NameSet]
      BY <1>a, <2>3, <3>2, <3>3
    <3>5. \A g \in Folder : lock[g] \notin {Nobody, t} => row'[g].parent = row[g].parent
      BY <1>a, <2>1, <2>3, <3>1, <3>2
    <3> QED
      BY <2>3, <3>4, <3>5, CommitsEnds, EndKeeps
  <2> QED
    BY <2>1, <2>2, <2>3
<1>3. CASE MoveSave(t)
  <2> DEFINE f == tx[t].f
             r == [row[f] EXCEPT !.parent = tx[t].to]
             d == NameRow(tx[t].to, row[f].name)
  <2>1. /\ tx[t].pc = "save"
        /\ \/ Rollback(t)
           \/ row' = [row EXCEPT ![f] = r] /\ dn' = [dn EXCEPT ![f] = d] /\ Commits(t)
    BY <1>3 DEF MoveSave, At
  <2>2. CASE Rollback(t)
    BY <2>2, RollbackKeeps
  <2>3. CASE row' = [row EXCEPT ![f] = r] /\ dn' = [dn EXCEPT ![f] = d] /\ Commits(t)
    <3>1. f \in Folder /\ row[f] \in RowSet /\ tx[t].to \in Folder \cup {Root} /\ lock[f] = t
      BY <1>a, <2>1 DEF Subject, MoveHolds, TxSet
    <3>2. r \in RowSet
      BY <3>1 DEF RowSet
    <3>3. d \in NameSet
      BY <1>b, <3>1 DEF RowSet
    <3> HIDE DEF r, d, f
    <3>4. row' \in [Node -> RowSet] /\ dn' \in [Node -> NameSet]
      BY <1>a, <2>3, <3>1, <3>2, <3>3
    <3>5. \A g \in Folder : lock[g] \notin {Nobody, t} => row'[g].parent = row[g].parent
      BY <1>a, <2>3, <3>1
    <3> QED
      BY <2>3, <3>4, <3>5, CommitsEnds, EndKeeps
  <2> QED
    BY <2>1, <2>2, <2>3
<1>4. CASE DeleteMark(t)
  <2> DEFINE marked == {f \in tx[t].ids \cup FilesOf(tx[t].ids) : Live(f)}
             r(f) == IF f \in marked THEN [row[f] EXCEPT !.del = tx[t].batch] ELSE row[f]
             d(f) == IF f \in tx[t].ids \cup marked THEN [dn[f] EXCEPT !.active = FALSE] ELSE dn[f]
  <2>1. row' = [f \in Node |-> r(f)] /\ dn' = [f \in Node |-> d(f)] /\ Commits(t)
    BY <1>4 DEF DeleteMark
  <2>2. \A f \in Node : r(f) \in RowSet /\ r(f).parent = row[f].parent
    BY <1>a, <1>c DEF TxSet
  <2>3. \A f \in Node : d(f) \in NameSet
    <3>1. \A x \in NameSet : [x EXCEPT !.active = FALSE] \in NameSet
      BY DEF NameSet
    <3> QED
      BY <1>a, <3>1
  <2> HIDE DEF r, d
  <2>4. /\ row' \in [Node -> RowSet] /\ dn' \in [Node -> NameSet]
        /\ \A g \in Folder : row'[g].parent = row[g].parent
    BY <1>a, <2>1, <2>2, <2>3
  <2> QED
    BY <2>1, <2>4, CommitsEnds, EndKeeps
<1>5. CASE RestoreUnmark(t)
  <2> DEFINE in == tx[t].ids \cup FilesOf(tx[t].ids)
             batch == {f \in in : row[f].del = tx[t].batch}
             back == batch \cup {f \in in : Live(f)}
             r(f) == IF f \in batch THEN [row[f] EXCEPT !.del = 0] ELSE row[f]
             d(f) == IF f \in back THEN NameRow(row[f].parent, row[f].name) ELSE dn[f]
  <2>1. \/ Rollback(t)
        \/ row' = [f \in Node |-> r(f)] /\ dn' = [f \in Node |-> d(f)] /\ Commits(t)
    BY <1>5 DEF RestoreUnmark
  <2>2. \A f \in Node : r(f) \in RowSet /\ r(f).parent = row[f].parent
    BY <1>a, <1>c
  <2>3. \A f \in Node : d(f) \in NameSet
    BY <1>a, <1>b DEF RowSet
  <2> HIDE DEF r, d
  <2>4. CASE row' = [f \in Node |-> r(f)] /\ dn' = [f \in Node |-> d(f)] /\ Commits(t)
    <3>1. /\ row' \in [Node -> RowSet] /\ dn' \in [Node -> NameSet]
          /\ \A g \in Folder : row'[g].parent = row[g].parent
      BY <1>a, <2>2, <2>3, <2>4
    <3> QED
      BY <2>4, <3>1, CommitsEnds, EndKeeps
  <2> QED
    BY <2>1, <2>4, RollbackKeeps
<1> QED
  BY <1>1, <1>2, <1>3, <1>4, <1>5

----------------------------------------------------------------------------
\* The theorems

\* Inv holds initially and every step keeps it.
THEOREM Invariant == Spec => []Inv
<1>1. Init => Inv
  <2> SUFFICES ASSUME Init PROVE Inv
    OBVIOUS
  <2>1. Typed
    <3>1. row \in [Node -> RowSet] /\ dn \in [Node -> NameSet]
      BY StartAssumption DEF Init, RowSet, NameSet
    <3> QED
      BY <3>1, IdleType DEF Init, Typed
  <2>2. \A t \in Handler : Subject(t) /\ MoveHolds(t)
    BY DEF Init, Subject, MoveHolds, Idle
  <2>3. LocksHeldByMoves /\ LockedExist
    BY DEF Init, LocksHeldByMoves, LockedExist
  <2> QED
    BY <2>1, <2>2, <2>3 DEF Inv
<1>2. Inv /\ [Next]_vars => Inv'
  <2> SUFFICES ASSUME Inv, [Next]_vars PROVE Inv'
    OBVIOUS
  <2>1. CASE UNCHANGED vars
    BY <2>1 DEF vars, Inv, Typed, Subject, MoveHolds, LocksHeldByMoves, LockedExist, Exists
  <2>2. CASE Next
    BY <2>2, BeginStep, InnerStep, WriteStep DEF Next, Step
  <2> QED
    BY <2>1, <2>2
<1> QED
  BY <1>1, <1>2, PTL DEF Spec

\* Every variable keeps its type, and a row held FOR UPDATE always belongs to a
\* move in flight, whichever of its refusals and conflicts it ends with.
THEOREM LocksComeBack == Spec => []WellFormed
<1>1. Inv => WellFormed
  BY TypedTypeOK DEF Inv, WellFormed
<1> QED
  BY <1>1, Invariant, PTL

\* However moves interleave with each other and with the other handlers, moveFolder()
\* never saves a folder under one of its own children: its two row locks keep what
\* it has checked.
THEOREM NoSwap == Spec => MovesNeverSwap
<1>1. Inv => \A t \in Handler : At(t, "save") /\ row' # row =>
        LET f == tx[t].f
            p == tx[t].to IN
        (tx'[t].pc = "idle" /\ row'[f].parent = p /\ p \in Folder) => row[p].parent # f
  BY DEF Inv, MoveHolds, At
<1> QED
  BY <1>1, Invariant, PTL DEF MovesNeverSwap

----------------------------------------------------------------------------
\* The inductive invariant of the handlers that nobody overlaps

ParentsExist == \A f \in Node : row[f].parent \in Folder => Exists(row[f].parent)

Forest == \A f \in Folder : f \notin Ancestors(f) /\ Depth(f) <= MaxDepth

LiveInLive == \A f \in Node : Live(f) /\ row[f].parent \in Folder => Live(row[f].parent)

NamesAgree ==
    \A f \in Node :
        /\ dn[f].active <=> Live(f)
        /\ Live(f) => dn[f].scope = row[f].parent /\ dn[f].name = row[f].name

\* What was deleted together hangs together: with something and one of its ancestors
\* the deletion took all that is between them.
BatchesWhole ==
    \A g \in Node : row[g].del # 0 /\ (\E anc \in Ancestors(g) : row[anc].del = row[g].del) =>
        row[row[g].parent].del = row[g].del

\* What a handler h has found out is still so
Fresh(h) ==
    /\ h.pc = "insert" => Owned(h.to) /\ (h.to \in Folder => Depth(h.to) + 1 <= MaxDepth)
    /\ h.pc \in {"reload", "update"} =>
          /\ Live(h.f) /\ h.snap.del = 0
          /\ h.snap.parent = row[h.f].parent \/ (h.f \in File /\ Owned(h.snap.parent))
    /\ h.pc = "update" => \A col \in {"parent", "name", "del"} : col \notin h.cols => h.snap[col] = row[h.f][col]
    /\ h.pc \in {"lockparent", "check", "save"} => Live(h.f)
    /\ h.pc \in {"check", "save"} /\ h.to \in Folder => Live(h.to)
    /\ h.pc = "save" /\ h.to \in Folder =>
          ~IsDescendantOf(h.to, h.f) /\ Depth(h.to) + 1 + SubtreeHeight(h.f) <= MaxDepth
    /\ h.pc \in {"mark", "unmark"} => h.f \in Folder /\ h.ids = Subtree(h.f)
    /\ h.pc = "mark" => h.batch \in Batch /\ \A g \in Node : row[g].del # h.batch
    /\ h.pc = "unmark" =>
          Exists(h.f) /\ row[h.f].del = h.batch /\ h.batch # 0 /\ \A g \in Ancestors(h.f) : Live(g)

Tree == ParentsExist /\ Forest /\ LiveInLive /\ NamesAgree /\ BatchesWhole

SerialInv == ~raced => Tree /\ \A t \in Handler : tx[t].alone => Fresh(tx[t])
----------------------------------------------------------------------------
\* Walks over a function of parents

\* S holds the parent of each of its members that has one.
UpClosed(par, S) == \A g \in S : par[g] \in Folder => par[g] \in S
\* Every folder above f
Above(par, f) ==
    {h \in Folder : \A S \in SUBSET Folder :
                        (par[f] \in Folder => par[f] \in S) /\ UpClosed(par, S) => h \in S}
\* A parent's ancestors and itself, nothing at the root
UpTo(par, p) == IF p \in Folder THEN {p} \cup Above(par, p) ELSE {}

\* What holds the parent of f and is closed upwards holds all above f.
LEMMA AboveLeast ==
    ASSUME NEW par, NEW f, NEW S \in SUBSET Folder, par[f] \in Folder => par[f] \in S,
           UpClosed(par, S)
    PROVE  Above(par, f) \subseteq S
BY DEF Above

\* The set of all above f is closed upwards itself.
LEMMA AboveClosed ==
    ASSUME NEW par, NEW f
    PROVE  /\ Above(par, f) \in SUBSET Folder /\ UpClosed(par, Above(par, f))
           /\ par[f] \in Folder => par[f] \in Above(par, f)
BY DEF Above, UpClosed

\* Above f is its parent and what is above that.
LEMMA AboveParent == ASSUME NEW par, NEW f PROVE Above(par, f) = UpTo(par, par[f])
<1>1. CASE par[f] \notin Folder
  <2>1. {} \in SUBSET Folder /\ UpClosed(par, {})
    BY DEF UpClosed
  <2>2. Above(par, f) \subseteq {}
    BY <1>1, <2>1, AboveLeast
  <2> QED
    BY <1>1, <2>2 DEF UpTo
<1>2. CASE par[f] \in Folder
  <2> DEFINE p == par[f]
             S == {p} \cup Above(par, p)
  <2>1. S \in SUBSET Folder /\ UpClosed(par, S)
    BY <1>2, AboveClosed DEF UpClosed
  <2>2. Above(par, f) \subseteq S
    BY <2>1, AboveLeast
  <2>3. p \in Above(par, f) /\ UpClosed(par, Above(par, f)) /\ Above(par, f) \in SUBSET Folder
    BY <1>2, AboveClosed
  <2>4. par[p] \in Folder => par[p] \in Above(par, f)
    BY <2>3 DEF UpClosed
  <2>5. Above(par, p) \subseteq Above(par, f)
    BY <2>3, <2>4, AboveLeast
  <2> QED
    BY <1>2, <2>2, <2>3, <2>5 DEF UpTo
<1> QED
  BY <1>1, <1>2

\* What is above something above f is above f.
LEMMA AboveTrans ==
    ASSUME NEW par, NEW f, NEW g \in Above(par, f)
    PROVE  Above(par, g) \subseteq Above(par, f)
<1>1. UpClosed(par, Above(par, f)) /\ Above(par, f) \in SUBSET Folder
  BY AboveClosed
<1>2. par[g] \in Folder => par[g] \in Above(par, f)
  BY <1>1 DEF UpClosed
<1> QED
  BY <1>1, <1>2, AboveLeast

\* Of two folders above a third one is above the other.
LEMMA AboveLinear ==
    ASSUME NEW par, NEW g, NEW f \in Above(par, g), NEW h \in Above(par, g)
    PROVE  h = f \/ h \in Above(par, f) \/ f \in Above(par, h)
<1> DEFINE S == {k \in Folder : k = f \/ k \in Above(par, f) \/ f \in Above(par, k)}
<1>1. ASSUME NEW k \in Folder, f \in Above(par, k) PROVE par[k] \in Folder /\ par[k] \in S
  <2>1. f \in UpTo(par, par[k])
    BY <1>1, AboveParent
  <2> QED
    BY <2>1 DEF UpTo
<1>2. UpClosed(par, S)
  <2> SUFFICES ASSUME NEW k \in S, par[k] \in Folder PROVE par[k] \in S
    BY DEF UpClosed
  <2>1. CASE k = f
    BY <2>1, AboveClosed
  <2>2. CASE k \in Above(par, f)
    BY <2>2, AboveClosed DEF UpClosed
  <2>3. CASE f \in Above(par, k)
    BY <2>3, <1>1
  <2> QED
    BY <2>1, <2>2, <2>3
<1>3. f \in UpTo(par, par[g])
  BY AboveParent
<1>4. par[g] \in Folder => par[g] \in S
  BY <1>3 DEF UpTo
<1>5. S \in SUBSET Folder
  OBVIOUS
<1> HIDE DEF S
<1>6. h \in S
  BY <1>2, <1>4, <1>5, AboveLeast
<1> QED
  BY <1>6 DEF S

\* The folders are finite, so a walk ends.
LEMMA AboveFinite == ASSUME NEW par, NEW f PROVE IsFiniteSet(Above(par, f))
BY AboveClosed, NodeAssumption, FS_Subset

\* f gets the parent p, which is not f and not below f.  What was not below f has at
\* most the ancestors it had; f and what was below it exchange those of f for those
\* of p, and there is no new cycle.
LEMMA Reparent ==
    ASSUME NEW par, NEW new, NEW f \in Folder, f \notin UpTo(par, new[f]),
           \A h \in Folder : h # f => new[h] = par[h],
           \A h \in Folder : h \notin Above(par, h), NEW g \in Folder
    PROVE  /\ g # f /\ f \notin Above(par, g) => Above(new, g) \subseteq Above(par, g)
           /\ g = f \/ f \in Above(par, g) =>
                /\ Above(new, g) \subseteq (Above(par, g) \ Above(par, f)) \cup UpTo(par, new[f])
                /\ Above(par, f) \subseteq Above(par, g)
           /\ g \notin Above(new, g)
<1> DEFINE p == new[f]
           U == UpTo(par, p)
<1>1. ASSUME g # f, f \notin Above(par, g) PROVE Above(new, g) \subseteq Above(par, g)
  <2>1. Above(par, g) \in SUBSET Folder /\ UpClosed(par, Above(par, g))
        /\ (par[g] \in Folder => par[g] \in Above(par, g))
    BY AboveClosed
  <2>2. UpClosed(new, Above(par, g))
    BY <1>1, <2>1 DEF UpClosed
  <2> QED
    BY <1>1, <2>1, <2>2, AboveLeast
<1>2. U \in SUBSET Folder /\ UpClosed(par, U) /\ (p \in Folder => p \in U)
  <2>1. Above(par, p) \in SUBSET Folder /\ UpClosed(par, Above(par, p))
        /\ (par[p] \in Folder => par[p] \in Above(par, p))
    BY AboveClosed
  <2> QED
    BY <2>1 DEF UpTo, UpClosed
<1>3. ASSUME g = f \/ f \in Above(par, g)
      PROVE  Above(new, g) \subseteq (Above(par, g) \ Above(par, f)) \cup U
  <2> DEFINE S == (Above(par, g) \ Above(par, f)) \cup U
  <2>1. Above(par, g) \in SUBSET Folder /\ UpClosed(par, Above(par, g))
        /\ (par[g] \in Folder => par[g] \in Above(par, g))
    BY AboveClosed
  <2>2. ASSUME NEW k \in Folder, f \in Above(par, k) PROVE par[k] \notin Above(par, f)
    <3>1. f \in UpTo(par, par[k])
      BY <2>2, AboveParent
    <3>2. CASE par[k] = f
      BY <3>2
    <3>3. CASE par[k] \in Above(par, f) /\ f \in Above(par, par[k])
      BY <3>3, AboveTrans
    <3> QED
      BY <3>1, <3>2, <3>3 DEF UpTo
  <2>3. new[g] \in Folder => new[g] \in S
    <3>1. CASE g = f
      BY <3>1, <1>2
    <3>2. CASE g # f
      <4>1. f \in Above(par, g) /\ new[g] = par[g]
        BY <3>2, <1>3
      <4> QED
        BY <4>1, <2>1, <2>2
    <3> QED
      BY <3>1, <3>2
  <2>4. ASSUME NEW h \in S, new[h] \in Folder PROVE new[h] \in S
    <3>1. CASE h \in U
      BY <3>1, <1>2, <2>4 DEF UpClosed
    <3>2. CASE h = f
      BY <3>2, <1>2, <2>4
    <3>3. CASE h # f /\ h \in Above(par, g) /\ h \notin Above(par, f)
      <4>1. g # f
        BY <3>3
      <4>2. f \in Above(par, h) /\ h \in Folder /\ new[h] = par[h]
        BY <1>3, <2>1, <3>3, <4>1, AboveLinear
      <4> QED
        BY <2>1, <2>2, <2>4, <3>3, <4>2 DEF UpClosed
    <3> QED
      BY <3>1, <3>2, <3>3
  <2>5. S \in SUBSET Folder /\ UpClosed(new, S)
    BY <1>2, <2>1, <2>4 DEF UpClosed
  <2> HIDE DEF S
  <2>6. Above(new, g) \subseteq S
    BY <2>3, <2>5, AboveLeast
  <2> QED
    BY <2>6 DEF S
<1>4. ASSUME g = f \/ f \in Above(par, g) PROVE Above(par, f) \subseteq Above(par, g)
  BY <1>4, AboveTrans
<1>5. g \notin Above(new, g)
  <2>1. CASE g # f /\ f \notin Above(par, g)
    BY <1>1, <2>1
  <2>2. CASE g = f
    BY <1>3, <2>2
  <2>3. CASE f \in Above(par, g)
    <3>1. g \notin U
      <4> SUFFICES ASSUME g \in U PROVE FALSE
        OBVIOUS
      <4>1. g \notin Above(par, p) \/ Above(par, g) \subseteq Above(par, p)
        BY AboveTrans
      <4> QED
        BY <2>3, <4>1 DEF UpTo
    <3> QED
      BY <1>3, <2>3, <3>1
  <2> QED
    BY <2>1, <2>2, <2>3
<1> QED
  BY <1>1, <1>3, <1>4, <1>5

\* A file in the tree, too, gets no ancestors but those of the new parent.
LEMMA ReparentAny ==
    ASSUME NEW par, NEW new, NEW f \in Folder, f \notin UpTo(par, new[f]),
           \A h \in Node : h # f => new[h] = par[h],
           \A h \in Folder : h \notin Above(par, h), NEW g \in Node
    PROVE  Above(new, g) \subseteq Above(par, g) \cup UpTo(par, new[f])
<1>1. ASSUME NEW h \in Folder PROVE Above(new, h) \subseteq Above(par, h) \cup UpTo(par, new[f])
  BY Reparent DEF Node
<1>2. CASE g \in Folder
  BY <1>1, <1>2
<1>3. CASE g \notin Folder
  <2>1. new[g] = par[g]
    BY <1>3
  <2>2. Above(new, g) = UpTo(new, par[g]) /\ Above(par, g) = UpTo(par, par[g])
    BY <2>1, AboveParent
  <2>3. UpTo(new, par[g]) \subseteq UpTo(par, par[g]) \cup UpTo(par, new[f])
    BY <1>1 DEF UpTo
  <2> QED
    BY <2>2, <2>3
<1> QED
  BY <1>2, <1>3

\* Where parents are less deep there is no cycle, and no folder has more ancestors
\* than its depth.
LEMMA Ranked ==
    ASSUME NEW par, NEW depth \in [Folder -> 0..MaxDepth],
           \A h \in Folder : par[h] \in Folder => depth[par[h]] < depth[h], NEW f \in Folder
    PROVE  f \notin Above(par, f) /\ Cardinality(Above(par, f)) <= MaxDepth
<1> USE DepthAssumption
<1>1. ASSUME NEW g \in Folder, NEW h \in Above(par, g) PROVE depth[h] < depth[g]
  <2> DEFINE S == {k \in Folder : depth[k] < depth[g]}
  <2>1. UpClosed(par, S)
    BY DEF UpClosed
  <2>2. par[g] \in Folder => par[g] \in S
    OBVIOUS
  <2>3. Above(par, g) \subseteq S
    BY <2>1, <2>2, AboveLeast
  <2> QED
    BY <2>3
<1> DEFINE A == Above(par, f)
           B == 0..(depth[f] - 1)
           rank == [h \in A |-> depth[h]]
<1>2. A \subseteq Folder
  BY AboveClosed
<1>3. rank \in [A -> B]
  BY <1>1, <1>2
<1>4. ASSUME NEW g \in A, NEW h \in A, rank[g] = rank[h] PROVE g = h
  <2>1. g = h \/ g \in Above(par, h) \/ h \in Above(par, g)
    BY AboveLinear
  <2>2. depth[g] = depth[h] /\ g \in Folder /\ h \in Folder
    BY <1>2, <1>4
  <2> QED
    BY <1>1, <2>1, <2>2
<1>5. rank \in Injection(A, B)
  <2> HIDE DEF rank, A, B
  <2> QED
    BY <1>3, <1>4 DEF Injection, IsInjective
<1>6. IsFiniteSet(B) /\ Cardinality(B) <= MaxDepth
  <2>1. depth[f] \in Nat /\ depth[f] <= MaxDepth
    OBVIOUS
  <2>2. 0 \in Int /\ depth[f] - 1 \in Int
    BY <2>1
  <2>3. IsFiniteSet(B) /\ Cardinality(B) = IF 0 > depth[f] - 1 THEN 0 ELSE depth[f] - 1 - 0 + 1
    BY <2>2, FS_Interval
  <2> HIDE DEF B
  <2> QED
    BY <2>1, <2>3
<1>7. Cardinality(A) <= Cardinality(B) /\ Cardinality(A) \in Nat /\ Cardinality(B) \in Nat
  <2> HIDE DEF rank, A, B
  <2>1. IsFiniteSet(A) /\ Cardinality(A) <= Cardinality(B)
    BY <1>5, <1>6, FS_Injection
  <2> QED
    BY <1>6, <2>1, FS_CardinalityType
<1>8. f \notin A
  BY <1>1
<1> HIDE DEF A, B
<1> QED
  BY <1>6, <1>7, <1>8 DEF A

----------------------------------------------------------------------------
\* The tree of the rows

Parents == [f \in Node |-> row[f].parent]

\* The model's walks are those over the parents of the rows.
LEMMA AncestorsAbove == \A f \in Node : Ancestors(f) = Above(Parents, f) /\ row[f].parent = Parents[f]
BY DEF Ancestors, Above, UpClosed, Parents, Node

\* Likewise after a step.
LEMMA AncestorsAboveNext ==
    \A f \in Node : Ancestors(f)' = Above(Parents', f) /\ row'[f].parent = Parents'[f]
BY DEF Ancestors, Above, UpClosed, Parents, Node

\* Depths are numbers.
LEMMA DepthNat == \A f \in Node : Depth(f) \in Nat /\ IsFiniteSet(Ancestors(f))
BY AncestorsAbove, AboveFinite, FS_CardinalityType DEF Depth

\* No folder of a subtree is deeper below its top than the subtree is high.
LEMMA TallEnough ==
    ASSUME Forest, NEW f \in Folder, NEW g \in Subtree(f)
    PROVE  SubtreeHeight(f) \in Int /\ Depth(g) - Depth(f) <= SubtreeHeight(f)
<1> USE DepthAssumption
<1> DEFINE D == {Depth(h) - Depth(f) : h \in Subtree(f)}
           E == {MaxDepth - d : d \in D}
<1>1. Subtree(f) \subseteq Folder /\ Folder \subseteq Node
  BY DEF Subtree, Node
<1>2. \A h \in Folder : Depth(h) \in Nat /\ Depth(h) <= MaxDepth
  BY <1>1, DepthNat DEF Forest
<1>3. \A d \in D : d \in Int /\ d <= MaxDepth
  BY <1>1, <1>2
<1>4. E \in SUBSET Nat /\ Depth(g) - Depth(f) \in D
  BY <1>3
<1> HIDE DEF D
<1>5. \E x \in E : \A y \in E : x <= y
  BY <1>4, LeastExists
<1>6. \E x \in D : \A y \in D : x >= y
  BY <1>3, <1>5
<1>7. Max(D) \in D /\ \A y \in D : Max(D) >= y
  BY <1>6 DEF Max
<1>8. SubtreeHeight(f) = Max(D)
  BY DEF SubtreeHeight, D
<1> QED
  BY <1>3, <1>4, <1>7, <1>8

\* What is above something exists.
LEMMA AboveExists == ASSUME ParentsExist, NEW f \in Node PROVE \A h \in Ancestors(f) : Exists(h)
<1> DEFINE S == {h \in Folder : Exists(h)}
<1>1. (Parents[f] \in Folder => Parents[f] \in S) /\ UpClosed(Parents, S)
  BY AncestorsAbove DEF ParentsExist, UpClosed, Node
<1>2. Above(Parents, f) \subseteq S
  BY <1>1, AboveLeast
<1> QED
  BY <1>2, AncestorsAbove

\* Above something live all is live.
LEMMA AboveLive == ASSUME LiveInLive, NEW f \in Node, Live(f) PROVE \A h \in Ancestors(f) : Live(h)
<1> DEFINE S == {h \in Folder : Live(h)}
<1>1. (Parents[f] \in Folder => Parents[f] \in S) /\ UpClosed(Parents, S)
  BY AncestorsAbove DEF LiveInLive, UpClosed, Node
<1>2. Above(Parents, f) \subseteq S
  BY <1>1, AboveLeast
<1> QED
  BY <1>2, AncestorsAbove

\* A folder that may be written as a parent is live, and so is all above it.
LEMMA UpToOwned ==
    ASSUME LiveInLive, NEW p, Owned(p)
    PROVE  \A h \in UpTo(Parents, p) : h \in Folder /\ Live(h)
<1>1. CASE p \in Folder
  <2>1. p \in Node /\ Live(p)
    BY <1>1, RootAssumption DEF Owned, Node
  <2>2. UpTo(Parents, p) = {p} \cup Ancestors(p) /\ Ancestors(p) \subseteq Folder
    BY <1>1, <2>1, AncestorsAbove DEF UpTo, Ancestors
  <2> QED
    BY <1>1, <2>1, <2>2, AboveLive
<1>2. CASE p \notin Folder
  BY <1>2 DEF UpTo
<1> QED
  BY <1>1, <1>2

\* The folders of a subtree: its top, and with each folder those in it
LEMMA SubtreeDown ==
    ASSUME Typed, NEW f \in Folder, NEW g \in Folder, row[g].parent \in Folder
    PROVE  /\ row[g].parent \in Subtree(f) => g \in Subtree(f)
           /\ g \in Subtree(f) /\ g # f => IsDescendantOf(row[g].parent, f)
<1> DEFINE p == row[g].parent
<1>1. g \in Node /\ p \in Node /\ Parents[g] = p /\ p # Absent
  BY AncestorsAbove, RootAssumption DEF Node
<1>2. Ancestors(g) = {p} \cup Ancestors(p)
  BY <1>1, AncestorsAbove, AboveParent DEF UpTo
<1> QED
  BY <1>1, <1>2 DEF Subtree, IsDescendantOf

----------------------------------------------------------------------------
\* Steps that write nothing, and the end of those that write

\* As long as no parent changes the walks give what they gave.
LEMMA SameWalks ==
    ASSUME \A f \in Node : row'[f].parent = row[f].parent
    PROVE  /\ \A f \in Node : Ancestors(f)' = Ancestors(f)
           /\ \A f \in Node : Depth(f)' = Depth(f) /\ (Exists(f)' <=> Exists(f))
           /\ \A f, h \in Node : IsDescendantOf(f, h)' <=> IsDescendantOf(f, h)
<1>1. Parents' = Parents
  BY DEF Parents
<1>2. \A f \in Node : Ancestors(f)' = Ancestors(f)
  BY <1>1, AncestorsAbove, AncestorsAboveNext
<1> QED
  BY <1>2 DEF Depth, Exists, IsDescendantOf

\* Likewise the subtrees and their heights.
LEMMA SameSubtrees ==
    ASSUME \A f \in Node : row'[f].parent = row[f].parent
    PROVE  \A f \in Folder : Subtree(f)' = Subtree(f) /\ SubtreeHeight(f)' = SubtreeHeight(f)
<1> SUFFICES ASSUME NEW f \in Folder PROVE Subtree(f)' = Subtree(f) /\ SubtreeHeight(f)' = SubtreeHeight(f)
  OBVIOUS
<1>1. f \in Node /\ Folder \subseteq Node
  BY DEF Node
<1>2. Subtree(f)' = Subtree(f)
  BY <1>1, SameWalks DEF Subtree
<1>3. Subtree(f) \subseteq Node
  BY <1>1 DEF Subtree
<1>4. {Depth(g) - Depth(f) : g \in Subtree(f)}' = {Depth(g) - Depth(f) : g \in Subtree(f)}
  BY <1>1, <1>2, <1>3, SameWalks
<1>5. SubtreeHeight(f)' = SubtreeHeight(f)
  BY <1>4 DEF SubtreeHeight
<1> QED
  BY <1>2, <1>5

\* A step that writes no row keeps the tree, and a handler that found out something
\* true before the step goes on knowing it.
LEMMA Unwritten ==
    ASSUME Inv, Inv', SerialInv, row' = row, dn' = dn, raced' = raced,
           \A u \in Handler : tx'[u].alone => tx'[u] = tx[u] \/ (Tree => Fresh(tx'[u]))
    PROVE  SerialInv'
<1> SUFFICES ASSUME ~raced PROVE Tree' /\ \A t \in Handler : tx'[t].alone => Fresh(tx[t])'
  BY DEF SerialInv
<1>1. Tree /\ \A t \in Handler : tx[t].alone => Fresh(tx[t])
  BY DEF SerialInv
<1>2. Folder \subseteq Node
  BY DEF Node
<1>3. Tree'
  <2>1. ParentsExist' /\ LiveInLive' /\ NamesAgree'
    BY <1>1 DEF Tree, ParentsExist, LiveInLive, NamesAgree, Live, Exists
  <2>2. Forest'
    BY <1>1, <1>2, SameWalks DEF Tree, Forest
  <2>3. BatchesWhole'
    BY <1>1, SameWalks DEF Tree, BatchesWhole
  <2> QED
    BY <2>1, <2>2, <2>3 DEF Tree
<1>4. ASSUME NEW u \in Handler, tx'[u].alone PROVE Fresh(tx[u])'
  <2>1. PICK h : h = tx'[u]
    OBVIOUS
  <2>2. Fresh(h)
    BY <1>1, <1>4, <2>1
  <2>3. h \in TxSet
    BY <2>1 DEF Inv, Typed
  <2>4. h.to \in Folder \cup {Root} /\ h.f \in Node \cup {Root}
    BY <2>3 DEF TxSet
  <2>5. /\ h.pc \in {"reload", "update"} => h.f \in Node
        /\ h.pc \in {"lockself", "lockparent", "check", "save"} => h.f \in Folder
    BY <2>1 DEF Inv, Subject
  <2>6. \A f : (Live(f)' <=> Live(f)) /\ (Exists(f)' <=> Exists(f)) /\ (Owned(f)' <=> Owned(f))
    BY DEF Live, Exists, Owned
  <2>a. h.pc = "insert" => Owned(h.to)' /\ (h.to \in Folder => Depth(h.to)' + 1 <= MaxDepth)
    BY <1>2, <2>2, <2>4, <2>6, SameWalks DEF Fresh
  <2>b. h.pc \in {"reload", "update"} =>
          /\ Live(h.f)' /\ h.snap.del = 0
          /\ h.snap.parent = row'[h.f].parent \/ (h.f \in File /\ Owned(h.snap.parent)')
    BY <2>2, <2>6 DEF Fresh
  <2>c. h.pc = "update" => \A col \in {"parent", "name", "del"} : col \notin h.cols => h.snap[col] = row'[h.f][col]
    BY <2>2 DEF Fresh
  <2>d. /\ h.pc \in {"lockparent", "check", "save"} => Live(h.f)'
        /\ h.pc \in {"check", "save"} /\ h.to \in Folder => Live(h.to)'
    BY <2>2, <2>6 DEF Fresh
  <2>e. h.pc = "save" /\ h.to \in Folder =>
          ~IsDescendantOf(h.to, h.f)' /\ Depth(h.to)' + 1 + SubtreeHeight(h.f)' <= MaxDepth
    <3> SUFFICES ASSUME h.pc = "save", h.to \in Folder
                 PROVE  ~IsDescendantOf(h.to, h.f)' /\ Depth(h.to)' + 1 + SubtreeHeight(h.f)' <= MaxDepth
      OBVIOUS
    <3>1. ~IsDescendantOf(h.to, h.f) /\ Depth(h.to) + 1 + SubtreeHeight(h.f) <= MaxDepth
      BY <2>2 DEF Fresh
    <3>2. h.f \in Folder /\ h.f \in Node /\ h.to \in Node
      BY <1>2, <2>5
    <3>3. (IsDescendantOf(h.to, h.f)' <=> IsDescendantOf(h.to, h.f)) /\ Depth(h.to)' = Depth(h.to)
      BY <3>2, SameWalks
    <3>4. SubtreeHeight(h.f)' = SubtreeHeight(h.f)
      BY <3>2, SameSubtrees
    <3> QED
      BY <3>1, <3>3, <3>4
  <2>f. /\ h.pc \in {"mark", "unmark"} => h.f \in Folder /\ h.ids = Subtree(h.f)'
        /\ h.pc = "mark" => h.batch \in Batch /\ \A g \in Node : row'[g].del # h.batch
    BY <2>2, SameSubtrees DEF Fresh
  <2>g. h.pc = "unmark" =>
          Exists(h.f)' /\ row'[h.f].del = h.batch /\ h.batch # 0 /\ \A g \in Ancestors(h.f)' : Live(g)'
    BY <1>2, <2>2, <2>6, SameWalks DEF Fresh
  <2> QED
    BY <2>1, <2>a, <2>b, <2>c, <2>d, <2>e, <2>f, <2>g DEF Fresh
<1> QED
  BY <1>3, <1>4

\* A refused handler leaves everything as it was.
LEMMA RollbackSerial ==
    ASSUME Inv, SerialInv, NEW t \in Handler, Rollback(t)
    PROVE  SerialInv'
<1>1. Inv'
  BY RollbackKeeps
<1>2. /\ row' = row /\ dn' = dn /\ raced' = raced /\ tx'[t] = Idle
      /\ \A u \in Handler : u # t => tx'[u] = tx[u]
  BY DEF Rollback, Inv, Typed
<1>3. Fresh(Idle)
  BY DEF Fresh, Idle
<1> QED
  BY <1>1, <1>2, <1>3, Unwritten

\* When a handler commits, only its own write matters: the others in flight are
\* overlapped.
LEMMA Wrote ==
    ASSUME Inv, Inv', SerialInv, NEW t \in Handler, Commits(t),
           ~raced /\ tx[t].alone /\ Tree /\ Fresh(tx[t]) => Tree'
    PROVE  SerialInv'
<1> SUFFICES ASSUME ~raced' PROVE Tree' /\ \A u \in Handler : tx'[u].alone => Fresh(tx[u])'
  BY DEF SerialInv
<1>1. ~raced /\ tx[t].alone
  BY DEF Commits, Inv, Typed, TxSet
<1>2. Tree'
  BY <1>1 DEF SerialInv
<1>3. ASSUME NEW u \in Handler, tx'[u].alone PROVE tx'[u].pc = "idle"
  <2>1. CASE u = t
    BY <2>1 DEF Commits, Idle
  <2>2. CASE u # t
    <3>1. tx[u] \in TxSet
      BY DEF Inv, Typed
    <3>2. ~[tx[u] EXCEPT !.alone = FALSE].alone
      BY <3>1 DEF TxSet
    <3>3. tx[u].pc = "idle" /\ tx'[u] = tx[u]
      BY <1>3, <2>2, <3>2 DEF Commits
    <3> QED
      BY <3>3
  <2> QED
    BY <2>1, <2>2
<1>4. ASSUME NEW u \in Handler, tx'[u].alone PROVE Fresh(tx[u])'
  BY <1>3, <1>4 DEF Fresh
<1> QED
  BY <1>2, <1>4

\* A handler may begin with anything that is true of the tree.
LEMMA BeginSerial ==
    ASSUME Inv, Inv', SerialInv, NEW t \in Handler, NEW op, NEW new, Begins(t, op, new), Tree => Fresh(new)
    PROVE  SerialInv'
<1>1. /\ row' = row /\ dn' = dn /\ raced' = raced /\ tx'[t] = new
      /\ \A u \in Handler : u # t => tx'[u] = tx[u]
  BY DEF Begins, Inv, Typed
<1> QED
  BY <1>1, Unwritten

\* Handlers begin with what they have just read.
LEMMA BeginStepSerial ==
    ASSUME Inv, SerialInv, NEW t \in Handler,
           \/ CreateCheck(t) \/ RenameRead(t) \/ FileRead(t)
           \/ MoveBegin(t) \/ DeleteCollect(t) \/ RestoreCollect(t)
    PROVE  SerialInv'
<1>a. Inv'
  BY BeginStep
<1>b. row \in [Node -> RowSet] /\ Folder \subseteq Node
  BY DEF Inv, Typed, Node
<1>1. CASE CreateCheck(t)
  <2>1. PICK p \in Folder \cup {Root}, n \in Name :
             /\ Owned(p) /\ (p \in Folder => Depth(p) + 1 <= MaxDepth)
             /\ Begins(t, "create", [Idle EXCEPT !.pc = "insert", !.to = p, !.name = n])
    BY <1>1 DEF CreateCheck
  <2> DEFINE new == [Idle EXCEPT !.pc = "insert", !.to = p, !.name = n]
  <2>2. new.pc = "insert" /\ new.to = p
    BY DEF Idle
  <2> HIDE DEF new
  <2>3. Fresh(new)
    BY <2>1, <2>2 DEF Fresh
  <2> QED
    BY <1>a, <2>1, <2>3, BeginSerial DEF new
<1>2. CASE RenameRead(t)
  <2>1. PICK f \in Folder, n \in Name :
             /\ Live(f)
             /\ Begins(t, "rename", [Idle EXCEPT !.pc = "reload", !.f = f,
                                                 !.snap = [row[f] EXCEPT !.name = n]])
    BY <1>2 DEF RenameRead
  <2> DEFINE s == [row[f] EXCEPT !.name = n]
             new == [Idle EXCEPT !.pc = "reload", !.f = f, !.snap = s]
  <2>2. s.del = 0 /\ s.parent = row[f].parent
    <3>1. row[f] \in RowSet
      BY <1>b
    <3> QED
      BY <2>1, <3>1 DEF RowSet, Live
  <2> HIDE DEF s
  <2>3. new.pc = "reload" /\ new.snap = s /\ new.f = f
    BY DEF Idle
  <2> HIDE DEF new
  <2>4. Fresh(new)
    BY <2>1, <2>2, <2>3 DEF Fresh
  <2> QED
    BY <1>a, <2>1, <2>4, BeginSerial DEF new, s
<1>3. CASE FileRead(t)
  <2>1. PICK f \in File, s \in [parent : Folder \cup {Root}, name : Name, del : {0}] :
             /\ Live(f)
             /\ s.parent = row[f].parent \/ Owned(s.parent)
             /\ Begins(t, "file", [Idle EXCEPT !.pc = "reload", !.f = f, !.snap = s])
    BY <1>3 DEF FileRead
  <2> DEFINE new == [Idle EXCEPT !.pc = "reload", !.f = f, !.snap = s]
  <2>2. new.pc = "reload" /\ new.snap = s /\ new.f = f /\ s.del = 0
    BY DEF Idle
  <2> HIDE DEF new
  <2>3. Fresh(new)
    BY <2>1, <2>2 DEF Fresh
  <2> QED
    BY <1>a, <2>1, <2>3, BeginSerial DEF new
<1>4. CASE MoveBegin(t)
  <2>1. PICK f \in Folder, p \in Folder \cup {Root} :
             Begins(t, "move", [Idle EXCEPT !.pc = "lockself", !.f = f, !.to = p])
    BY <1>4 DEF MoveBegin
  <2> DEFINE new == [Idle EXCEPT !.pc = "lockself", !.f = f, !.to = p]
  <2>2. new.pc = "lockself"
    BY DEF Idle
  <2> HIDE DEF new
  <2>3. Fresh(new)
    BY <2>2 DEF Fresh
  <2> QED
    BY <1>a, <2>1, <2>3, BeginSerial DEF new
<1>5. CASE DeleteCollect(t)
  <2>1. PICK f \in Folder, b \in Batch :
             /\ \A g \in Node : row[g].del # b
             /\ Begins(t, "delete", [Idle EXCEPT !.pc = "mark", !.f = f, !.ids = Subtree(f),
                                                 !.batch = b])
    BY <1>5 DEF DeleteCollect
  <2> DEFINE new == [Idle EXCEPT !.pc = "mark", !.f = f, !.ids = Subtree(f), !.batch = b]
  <2>2. new.pc = "mark" /\ new.f = f /\ new.ids = Subtree(f) /\ new.batch = b
    BY DEF Idle
  <2> HIDE DEF new
  <2>3. Fresh(new)
    BY <2>1, <2>2 DEF Fresh
  <2> QED
    BY <1>a, <2>1, <2>3, BeginSerial DEF new
<1>6. CASE RestoreCollect(t)
  <2>1. PICK f \in Folder :
             /\ Exists(f) /\ row[f].del # 0 /\ \A g \in Ancestors(f) : Live(g)
             /\ Begins(t, "restore", [Idle EXCEPT !.pc = "unmark", !.f = f, !.ids = Subtree(f),
                                                  !.batch = row[f].del])
    BY <1>6 DEF RestoreCollect
  <2> DEFINE new == [Idle EXCEPT !.pc = "unmark", !.f = f, !.ids = Subtree(f),
                                 !.batch = row[f].del]
  <2>2. new.pc = "unmark" /\ new.f = f /\ new.ids = Subtree(f) /\ new.batch = row[f].del
    BY DEF Idle
  <2> HIDE DEF new
  <2>3. Fresh(new)
    BY <2>1, <2>2 DEF Fresh
  <2> QED
    BY <1>a, <2>1, <2>3, BeginSerial DEF new
<1> QED
  BY <1>1, <1>2, <1>3, <1>4, <1>5, <1>6

\* Inside a handler, what it has found out grows.
LEMMA InnerStepSerial ==
    ASSUME Inv, SerialInv, NEW t \in Handler,
           \/ Reload(t) \/ LockSelf(t) \/ LockParent(t) \/ Deadlock(t) \/ MoveCheck(t)
    PROVE  SerialInv'
<1>a. Inv' /\ tx \in [Handler -> TxSet] /\ tx[t] \in TxSet /\ Subject(t)
  BY InnerStep DEF Inv, Typed
<1>r. CASE Rollback(t)
  BY <1>r, RollbackSerial
\* t goes to point q, and what it then knows was so already.
<1>b. ASSUME NEW q, tx' = [tx EXCEPT ![t].pc = q], UNCHANGED <<row, dn, raced>>,
             ~raced /\ tx[t].alone => Fresh([tx[t] EXCEPT !.pc = q])
      PROVE  SerialInv'
  <2>1. tx'[t] = [tx[t] EXCEPT !.pc = q] /\ tx'[t].alone = tx[t].alone
        /\ \A u \in Handler : u # t => tx'[u] = tx[u]
    BY <1>a, <1>b DEF TxSet
  <2>2. CASE ~raced
    BY <1>a, <1>b, <2>1, <2>2, Unwritten
  <2>3. CASE raced
    BY <1>b, <2>3 DEF SerialInv
  <2> QED
    BY <2>2, <2>3
<1>c. ~raced /\ tx[t].alone => Fresh(tx[t])
  BY DEF SerialInv
<1>1. CASE Reload(t)
  <2> DEFINE cols == {c \in DOMAIN tx[t].snap : tx[t].snap[c] # row[tx[t].f][c]}
  <2>1. tx[t].pc = "reload" /\ tx' = [tx EXCEPT ![t].pc = "update", ![t].cols = cols]
        /\ UNCHANGED <<row, dn, lock, raced>>
    BY <1>1 DEF Reload, At
  <2>2. \A c \in {"parent", "name", "del"} : c \notin cols => tx[t].snap[c] = row[tx[t].f][c]
    BY <1>a, <2>1 DEF Subject, RowSet
  <2> HIDE DEF cols
  <2>3. PICK h : h = [tx[t] EXCEPT !.pc = "update", !.cols = cols]
    OBVIOUS
  <2>4. /\ h.pc = "update" /\ h.cols = cols /\ h.snap = tx[t].snap /\ h.f = tx[t].f
        /\ h.alone = tx[t].alone
    BY <1>a, <2>3 DEF TxSet
  <2>5. tx'[t] = h /\ \A u \in Handler : u # t => tx'[u] = tx[u]
    BY <1>a, <2>1, <2>3
  <2>6. ~raced /\ tx[t].alone => Fresh(h)
    BY <1>c, <2>1, <2>2, <2>4 DEF Fresh
  <2>7. CASE ~raced
    BY <1>a, <2>1, <2>4, <2>5, <2>6, <2>7, Unwritten
  <2>8. CASE raced
    BY <2>1, <2>8 DEF SerialInv
  <2> QED
    BY <2>7, <2>8
<1>2. CASE LockSelf(t) /\ ~Rollback(t)
  <2> DEFINE q == IF tx[t].to = Root THEN "check" ELSE "lockparent"
  <2>1. /\ Live(tx[t].f) /\ tx' = [tx EXCEPT ![t].pc = q] /\ UNCHANGED <<row, dn, raced>>
    BY <1>2 DEF LockSelf, Goes
  <2>2. PICK h : h = [tx[t] EXCEPT !.pc = q]
    OBVIOUS
  <2>3. h.pc = q /\ h.f = tx[t].f /\ h.to = tx[t].to
    BY <1>a, <2>2 DEF TxSet
  <2>4. Fresh(h)
    <3>1. q \in {"check", "lockparent"} /\ (q = "check" => h.to \notin Folder)
      BY <2>3, RootAssumption DEF Node
    <3> HIDE DEF q
    <3> QED
      BY <2>1, <2>3, <3>1 DEF Fresh
  <2> QED
    BY <1>b, <2>1, <2>2, <2>4
<1>3. CASE LockParent(t) /\ ~Rollback(t)
  <2>1. /\ Live(tx[t].to) /\ tx' = [tx EXCEPT ![t].pc = "check"] /\ UNCHANGED <<row, dn, raced>>
        /\ tx[t].pc = "lockparent"
    BY <1>3 DEF LockParent, Goes, At
  <2>2. PICK h : h = [tx[t] EXCEPT !.pc = "check"]
    OBVIOUS
  <2>3. h.pc = "check" /\ h.f = tx[t].f /\ h.to = tx[t].to
    BY <1>a, <2>2 DEF TxSet
  <2>4. ~raced /\ tx[t].alone => Fresh(h)
    BY <1>c, <2>1, <2>3 DEF Fresh
  <2> QED
    BY <1>b, <2>1, <2>2, <2>4
<1>4. CASE Deadlock(t)
  BY <1>4, <1>r DEF Deadlock
<1>5. CASE MoveCheck(t) /\ ~Rollback(t)
  <2>1. /\ tx[t].pc = "check" /\ tx' = [tx EXCEPT ![t].pc = "save"] /\ UNCHANGED <<row, dn, raced>>
        /\ tx[t].to \in Folder => /\ ~IsDescendantOf(tx[t].to, tx[t].f)
                                  /\ Depth(tx[t].to) + 1 + SubtreeHeight(tx[t].f) <= MaxDepth
    BY <1>5 DEF MoveCheck, Goes, At
  <2>2. PICK h : h = [tx[t] EXCEPT !.pc = "save"]
    OBVIOUS
  <2>3. h.pc = "save" /\ h.f = tx[t].f /\ h.to = tx[t].to
    BY <1>a, <2>2 DEF TxSet
  <2>4. ~raced /\ tx[t].alone => Fresh(h)
    BY <1>c, <2>1, <2>3 DEF Fresh
  <2> QED
    BY <1>b, <2>1, <2>2, <2>4
<1> QED
  BY <1>r, <1>1, <1>2, <1>3, <1>4, <1>5

----------------------------------------------------------------------------
\* The writes

\* A live folder f under a live parent p or the root, with its name, that was not p
\* and not above it: the tree is one, if what is below f is not too deep there.
LEMMA Hung ==
    ASSUME Typed, Tree, NEW f \in Folder, NEW p \in Folder \cup {Root}, NEW r, Owned(p),
           r.parent = p, r.del = 0, p # f, p \in Folder => f \notin Ancestors(p),
           row' = [row EXCEPT ![f] = r], dn' = [dn EXCEPT ![f] = NameRow(p, r.name)],
           \A g \in Node : row[g].parent = f => row[f].del = 0,
           \A g \in Folder : p \in Folder /\ (g = f \/ f \in Ancestors(g)) =>
               Depth(g) - Depth(f) + Depth(p) + 1 <= MaxDepth
    PROVE  Tree'
<1> USE DepthAssumption
<1> DEFINE U == UpTo(Parents, p)
<1>a. /\ ParentsExist /\ Forest /\ LiveInLive /\ NamesAgree /\ BatchesWhole
      /\ Folder \subseteq Node /\ Absent \notin Folder \cup {Root} /\ Root \notin Folder
  BY RootAssumption DEF Tree, Node
<1>b. row'[f] = r /\ \A g \in Node : g # f => row'[g] = row[g]
  BY <1>a DEF Typed
<1>c. dn'[f] = NameRow(p, r.name) /\ \A g \in Node : g # f => dn'[g] = dn[g]
  BY <1>a DEF Typed
<1>d. /\ p \in Folder => Live(p) /\ row'[p] = row[p] /\ p # f
      /\ Live(f)' /\ Exists(f)'
  BY <1>a, <1>b DEF Owned, Live, Exists
<1>1. ParentsExist'
  <2> SUFFICES ASSUME NEW g \in Node, row'[g].parent \in Folder PROVE Exists(row[g].parent)'
    BY DEF ParentsExist
  <2>1. CASE g = f
    BY <1>b, <1>d, <2>1 DEF Exists, Live
  <2>2. CASE g # f
    <3>1. row'[g] = row[g] /\ Exists(row[g].parent)
      BY <1>a, <1>b, <2>2 DEF ParentsExist
    <3>2. CASE row[g].parent = f
      BY <1>d, <3>1, <3>2 DEF Exists
    <3>3. CASE row[g].parent # f
      BY <1>a, <1>b, <3>1, <3>3 DEF Exists
    <3> QED
      BY <3>2, <3>3
  <2> QED
    BY <2>1, <2>2
<1>2. LiveInLive'
  <2> SUFFICES ASSUME NEW g \in Node, Live(g)', row'[g].parent \in Folder PROVE Live(row[g].parent)'
    BY DEF LiveInLive
  <2>1. CASE g = f
    BY <1>b, <1>d, <2>1 DEF Exists, Live
  <2>2. CASE g # f
    <3>1. row'[g] = row[g] /\ Live(row[g].parent)
      BY <1>a, <1>b, <2>2 DEF LiveInLive, Live, Exists
    <3>2. CASE row[g].parent = f
      BY <1>d, <3>1, <3>2 DEF Exists, Live
    <3>3. CASE row[g].parent # f
      BY <1>a, <1>b, <3>1, <3>3 DEF Exists, Live
    <3> QED
      BY <3>2, <3>3
  <2> QED
    BY <2>1, <2>2
<1>3. NamesAgree'
  <2> SUFFICES ASSUME NEW g \in Node
               PROVE  /\ dn'[g].active <=> Live(g)'
                      /\ Live(g)' => dn'[g].scope = row'[g].parent /\ dn'[g].name = row'[g].name
    BY DEF NamesAgree
  <2>1. CASE g = f
    BY <1>b, <1>c, <1>d, <2>1 DEF NameRow
  <2>2. CASE g # f
    BY <1>a, <1>b, <1>c, <2>2 DEF NamesAgree, Live, Exists
  <2> QED
    BY <2>1, <2>2
\* The walks
<1>4. /\ Parents'[f] = p /\ \A h \in Node : h # f => Parents'[h] = Parents[h]
      /\ \A h \in Folder : h \notin Above(Parents, h)
      /\ f \notin U
  <2>1. Parents'[f] = p /\ \A h \in Node : h # f => Parents'[h] = Parents[h]
    BY <1>a, <1>b DEF Parents
  <2>2. \A h \in Folder : h \notin Above(Parents, h)
    BY <1>a, AncestorsAbove DEF Forest
  <2>3. f \notin U
    BY <1>a, AncestorsAbove DEF UpTo
  <2> QED
    BY <2>1, <2>2, <2>3
<1>5. \A h \in U : h \in Folder /\ Live(h)
  BY <1>a, UpToOwned
<1>6. IsFiniteSet(U) /\ Cardinality(U) \in Nat /\ Cardinality(U) <= (IF p \in Folder THEN Depth(p) + 1 ELSE 0)
  <2>1. CASE p \in Folder
    <3>1. U = Ancestors(p) \cup {p} /\ IsFiniteSet(Ancestors(p)) /\ Depth(p) \in Nat
      BY <1>a, <2>1, AncestorsAbove, DepthNat DEF UpTo
    <3> HIDE DEF U
    <3>2. IsFiniteSet(U) /\ Cardinality(U) \in Nat
      BY <3>1, FS_AddElement, FS_CardinalityType
    <3>3. Cardinality(U) <= Depth(p) + 1
      <4>1. Cardinality(Ancestors(p) \cup {p}) =
              IF p \in Ancestors(p) THEN Cardinality(Ancestors(p)) ELSE Cardinality(Ancestors(p)) + 1
        BY <3>1, FS_AddElement
      <4> QED
        BY <3>1, <4>1 DEF Depth
    <3> QED
      BY <2>1, <3>2, <3>3
  <2>2. CASE p \notin Folder
    BY <2>2, FS_EmptySet DEF UpTo
  <2> QED
    BY <2>1, <2>2
<1> HIDE DEF U
<1>7. Forest'
  <2> SUFFICES ASSUME NEW g \in Folder PROVE g \notin Ancestors(g)' /\ Depth(g)' <= MaxDepth
    BY DEF Forest
  <2> DEFINE A == Above(Parents, g)
             F == Above(Parents, f)
             N == Above(Parents', g)
  <2>1. /\ g # f /\ f \notin A => N \subseteq A
        /\ g = f \/ f \in A => N \subseteq (A \ F) \cup U /\ F \subseteq A
        /\ g \notin N
    <3>1. /\ f \notin UpTo(Parents, Parents'[f]) /\ U = UpTo(Parents, Parents'[f])
          /\ \A h \in Folder : h # f => Parents'[h] = Parents[h]
      BY <1>a, <1>4 DEF U
    <3>2. PICK old, new : old = Parents /\ new = Parents'
      OBVIOUS
    <3>3. /\ g # f /\ f \notin Above(old, g) => Above(new, g) \subseteq Above(old, g)
          /\ g = f \/ f \in Above(old, g) =>
               /\ Above(new, g) \subseteq (Above(old, g) \ Above(old, f)) \cup UpTo(old, new[f])
               /\ Above(old, f) \subseteq Above(old, g)
          /\ g \notin Above(new, g)
      BY <1>4, <3>1, <3>2, Reparent
    <3> QED
      BY <3>1, <3>2, <3>3
  <2>2. Ancestors(g)' = N /\ Ancestors(g) = A /\ Ancestors(f) = F
    BY <1>a, AncestorsAbove, AncestorsAboveNext
  <2>3. IsFiniteSet(A) /\ IsFiniteSet(F) /\ IsFiniteSet(N) /\ Cardinality(A) \in Nat
        /\ Cardinality(F) \in Nat /\ Cardinality(N) \in Nat
    BY AboveFinite, FS_CardinalityType
  <2>4. Depth(g)' = Cardinality(N) /\ Depth(g) = Cardinality(A) /\ Depth(f) = Cardinality(F)
    BY <2>2 DEF Depth
  <2>5. Depth(g) <= MaxDepth
    BY <1>a DEF Forest
  <2> HIDE DEF A, F, N
  <2>6. CASE g # f /\ f \notin A
    <3>1. Cardinality(N) <= Cardinality(A)
      BY <2>1, <2>3, <2>6, FS_Subset
    <3> QED
      BY <2>1, <2>2, <2>3, <2>4, <2>5, <3>1
  <2>7. CASE g = f \/ f \in A
    <3>1. A \cap F = F
      BY <2>1, <2>7
    <3>2. IsFiniteSet(A \ F) /\ Cardinality(A \ F) = Cardinality(A) - Cardinality(F)
      BY <2>3, <3>1, FS_Difference
    <3>3. /\ IsFiniteSet((A \ F) \cup U)
          /\ Cardinality((A \ F) \cup U) =
               Cardinality(A \ F) + Cardinality(U) - Cardinality((A \ F) \cap U)
      BY <1>6, <3>2, FS_Union
    <3>4. Cardinality((A \ F) \cap U) \in Nat
      BY <3>2, FS_Intersection, FS_CardinalityType
    <3>5. Cardinality(N) <= Cardinality((A \ F) \cup U)
      BY <2>1, <2>7, <3>3, FS_Subset
    <3>6. Cardinality(N) <= Cardinality(A) - Cardinality(F) + Cardinality(U)
      BY <1>6, <2>3, <3>2, <3>3, <3>4, <3>5
    <3>7. Cardinality(N) <= MaxDepth
      <4>1. CASE p \in Folder
        <5>1. Depth(g) - Depth(f) + Depth(p) + 1 <= MaxDepth /\ Depth(p) \in Nat
          BY <1>a, <2>2, <2>7, <4>1, DepthNat
        <5> QED
          BY <1>6, <2>3, <2>4, <3>6, <4>1, <5>1
      <4>2. CASE p \notin Folder
        BY <1>6, <2>3, <2>4, <2>5, <3>6, <4>2
      <4> QED
        BY <4>1, <4>2
    <3> QED
      BY <2>1, <2>2, <2>4, <3>7
  <2> QED
    BY <2>6, <2>7
<1>8. BatchesWhole'
  <2> SUFFICES ASSUME NEW g \in Node, row'[g].del # 0, NEW h \in Ancestors(g)',
                      row'[h].del = row'[g].del
               PROVE  row'[row'[g].parent].del = row'[g].del
    BY DEF BatchesWhole
  <2>1. g # f /\ row'[g] = row[g]
    BY <1>b
  <2>2. h \in Ancestors(g) \cup U
    <3>1. Above(Parents', g) \subseteq Above(Parents, g) \cup UpTo(Parents, Parents'[f])
      BY <1>4, ReparentAny DEF U
    <3> QED
      BY <1>4, <3>1, AncestorsAbove, AncestorsAboveNext DEF U
  <2>3. h \in Folder /\ h # f /\ row'[h] = row[h]
    <3>1. h \in Folder
      BY <1>5, <2>2 DEF Ancestors
    <3>2. h # f
      BY <1>b, <2>1
    <3> QED
      BY <1>a, <1>b, <3>1, <3>2
  <2>4. h \in Ancestors(g)
    BY <1>5, <2>1, <2>2, <2>3 DEF Live
  <2>5. row[row[g].parent].del = row[g].del
    BY <1>a, <2>1, <2>3, <2>4 DEF BatchesWhole
  <2>6. row[g].parent # f
    BY <2>1, <2>5
  <2>7. row[g].parent \in Folder
    <3>1. Above(Parents, g) = UpTo(Parents, Parents[g])
      BY AboveParent
    <3> QED
      BY <2>4, <3>1, AncestorsAbove DEF UpTo
  <2> QED
    BY <1>a, <1>b, <2>1, <2>5, <2>6, <2>7
<1> QED
  BY <1>1, <1>2, <1>3, <1>7, <1>8 DEF Tree

\* A live row written with its name where it is, or a file in another live place
LEMMA Rewritten ==
    ASSUME Typed, Tree, NEW f \in Node, Live(f), NEW r, r.del = 0, r.parent # Absent,
           r.parent = row[f].parent \/ (f \in File /\ Owned(r.parent)),
           row' = [row EXCEPT ![f] = r], dn' = [dn EXCEPT ![f] = NameRow(r.parent, r.name)]
    PROVE  Tree'
<1>a. /\ ParentsExist /\ Forest /\ LiveInLive /\ NamesAgree /\ BatchesWhole
      /\ Folder \subseteq Node /\ Absent \notin Folder \cup {Root} /\ Root \notin Folder
      /\ f \in File => f \notin Folder
  BY RootAssumption, NodeAssumption DEF Tree, Node
<1>b. row'[f] = r /\ \A g \in Node : g # f => row'[g] = row[g]
  BY DEF Typed
<1>c. dn'[f] = NameRow(r.parent, r.name) /\ \A g \in Node : g # f => dn'[g] = dn[g]
  BY DEF Typed
<1>d. \A g \in Node : /\ Exists(g)' <=> Exists(g)
                      /\ Live(g)' <=> Live(g)
                      /\ row'[g].del = row[g].del
                      /\ g \in Folder \/ g # f => row'[g].parent = row[g].parent
  BY <1>a, <1>b DEF Live, Exists
<1>e. r.parent \in Folder => Live(r.parent)
  BY <1>a DEF LiveInLive, Owned
<1>1. ParentsExist'
  BY <1>a, <1>b, <1>d, <1>e DEF ParentsExist, Live
<1>2. LiveInLive'
  BY <1>a, <1>b, <1>d, <1>e DEF LiveInLive
<1>3. NamesAgree'
  <2> SUFFICES ASSUME NEW g \in Node
               PROVE  /\ dn'[g].active <=> Live(g)'
                      /\ Live(g)' => dn'[g].scope = row'[g].parent /\ dn'[g].name = row'[g].name
    BY DEF NamesAgree
  <2>1. CASE g = f
    BY <1>b, <1>c, <1>d, <2>1 DEF NameRow
  <2>2. CASE g # f
    BY <1>a, <1>b, <1>c, <1>d, <2>2 DEF NamesAgree
  <2> QED
    BY <2>1, <2>2
<1>4. ASSUME NEW g \in Node, g \in Folder \/ g # f PROVE Ancestors(g)' \subseteq Ancestors(g)
  <2> DEFINE A == Above(Parents, g)
  <2>1. A \in SUBSET Folder /\ UpClosed(Parents, A) /\ (Parents[g] \in Folder => Parents[g] \in A)
    BY AboveClosed
  <2>2. Parents'[g] = Parents[g] /\ \A h \in Folder : Parents'[h] = Parents[h]
    BY <1>a, <1>d, <1>4, AncestorsAbove, AncestorsAboveNext
  <2> HIDE DEF A
  <2>3. UpClosed(Parents', A)
    BY <2>1, <2>2 DEF UpClosed
  <2>4. Above(Parents', g) \subseteq A
    BY <2>1, <2>2, <2>3, AboveLeast
  <2> QED
    BY <2>4, AncestorsAbove, AncestorsAboveNext DEF A
<1>5. Forest'
  <2> SUFFICES ASSUME NEW g \in Folder PROVE g \notin Ancestors(g)' /\ Depth(g)' <= MaxDepth
    BY DEF Forest
  <2>1. g \in Node /\ Ancestors(g)' \subseteq Ancestors(g) /\ g \notin Ancestors(g) /\ Depth(g) <= MaxDepth
    BY <1>a, <1>4 DEF Forest
  <2>2. IsFiniteSet(Ancestors(g)) /\ Cardinality(Ancestors(g)) \in Nat
    BY <2>1, DepthNat, FS_CardinalityType
  <2>3. Cardinality(Ancestors(g)') <= Cardinality(Ancestors(g)) /\ Cardinality(Ancestors(g)') \in Nat
    BY <2>1, <2>2, FS_Subset, FS_CardinalityType
  <2> QED
    BY <2>1, <2>2, <2>3, DepthAssumption DEF Depth
<1>6. BatchesWhole'
  <2> SUFFICES ASSUME NEW g \in Node, row'[g].del # 0, NEW h \in Ancestors(g)',
                      row'[h].del = row'[g].del
               PROVE  row'[row'[g].parent].del = row'[g].del
    BY DEF BatchesWhole
  <2>1. g # f /\ row'[g] = row[g]
    BY <1>b
  <2>2. h \in Ancestors(g) /\ h \in Node
    BY <1>4, <1>a, <2>1 DEF Ancestors
  <2>3. row[h].del = row[g].del /\ row[g].del # 0
    BY <1>d, <2>1, <2>2
  <2>4. row[row[g].parent].del = row[g].del
    BY <1>a, <2>2, <2>3 DEF BatchesWhole
  <2>5. row[g].parent \in Folder
    <3>1. Above(Parents, g) = UpTo(Parents, Parents[g])
      BY AboveParent
    <3> QED
      BY <2>2, <3>1, AncestorsAbove DEF UpTo
  <2> QED
    BY <1>a, <1>d, <2>1, <2>4, <2>5
<1> QED
  BY <1>1, <1>2, <1>3, <1>5, <1>6 DEF Tree

\* createFolder(), renames and moves of files, moveFolder()
LEMMA PlaceStepSerial ==
    ASSUME Inv, SerialInv, NEW t \in Handler, Insert(t) \/ Update(t) \/ MoveSave(t)
    PROVE  SerialInv'
<1>a. /\ Inv' /\ Typed /\ tx[t] \in TxSet /\ tx[t].to \in Folder \cup {Root}
      /\ row \in [Node -> RowSet] /\ Folder \subseteq Node /\ Subject(t)
      /\ Absent \notin Folder \cup {Root} /\ Root \notin Folder
  BY WriteStep, RootAssumption DEF Inv, Typed, TxSet, Node
<1>r. CASE Rollback(t)
  BY <1>r, RollbackSerial
<1>1. CASE Insert(t) /\ ~Rollback(t)
  <2>1. PICK p, n : p = tx[t].to /\ n = tx[t].name
    OBVIOUS
  <2> DEFINE d == NameRow(p, n)
             r == [parent |-> p, name |-> n, del |-> 0]
  <2>2. tx[t].pc = "insert" /\ \E f \in Folder :
           /\ ~Exists(f) /\ row' = [row EXCEPT ![f] = r] /\ dn' = [dn EXCEPT ![f] = d] /\ Commits(t)
    BY <1>1, <2>1 DEF Insert, At
  <2>3. PICK f \in Folder :
           /\ ~Exists(f) /\ row' = [row EXCEPT ![f] = r] /\ dn' = [dn EXCEPT ![f] = d] /\ Commits(t)
    BY <2>2
  <2>4. r.parent = p /\ r.del = 0 /\ d = NameRow(p, r.name)
    OBVIOUS
  <2>5. ASSUME Tree, Fresh(tx[t]) PROVE Tree'
    <3>1. ParentsExist /\ Forest /\ Owned(p) /\ (p \in Folder => Depth(p) + 1 <= MaxDepth /\ Live(p))
      BY <1>a, <2>1, <2>2, <2>5 DEF Fresh, Tree, Owned
    <3>2. \A g \in Node : f \notin Ancestors(g) /\ row[g].parent # f
      BY <2>3, <3>1, AboveExists DEF ParentsExist
    <3>3. p # f /\ p \in Folder \cup {Root}
      BY <1>a, <2>1, <2>3, <3>1 DEF Live
    <3>4. ASSUME NEW g \in Folder, p \in Folder /\ (g = f \/ f \in Ancestors(g))
          PROVE  Depth(g) - Depth(f) + Depth(p) + 1 <= MaxDepth
      <4>1. g = f /\ Depth(f) \in Nat /\ Depth(p) \in Nat
        BY <1>a, <3>2, <3>4, DepthNat
      <4> QED
        BY <3>1, <3>4, <4>1, DepthAssumption
    <3>5. p \in Folder => f \notin Ancestors(p)
      BY <1>a, <3>2
    <3> HIDE DEF r, d
    <3> QED
      BY <1>a, <2>3, <2>4, <2>5, <3>1, <3>2, <3>3, <3>4, <3>5, Hung
  <2> QED
    BY <1>a, <2>3, <2>5, Wrote
<1>2. CASE Update(t) /\ ~Rollback(t)
  <2>1. PICK f, s, cols : f = tx[t].f /\ s = tx[t].snap /\ cols = tx[t].cols
    OBVIOUS
  <2> DEFINE r == [c \in DOMAIN row[f] |-> IF c \in cols THEN s[c] ELSE row[f][c]]
             d == NameRow(s.parent, s.name)
  <2>2. /\ tx[t].pc = "update"
        /\ row' = [row EXCEPT ![f] = r] /\ dn' = [dn EXCEPT ![f] = d] /\ Commits(t)
    BY <1>2, <2>1 DEF Update, At
  <2>3. f \in Node /\ s \in RowSet /\ row[f] \in RowSet
    BY <1>a, <2>1, <2>2 DEF Subject
  <2>4. ASSUME Tree, Fresh(tx[t]) PROVE Tree'
    <3>1. /\ Live(f) /\ s.del = 0
          /\ s.parent = row[f].parent \/ (f \in File /\ Owned(s.parent))
          /\ \A col \in {"parent", "name", "del"} : col \notin cols => s[col] = row[f][col]
      BY <2>1, <2>2, <2>4 DEF Fresh
    <3>2. DOMAIN row[f] = {"parent", "name", "del"}
      BY <2>3 DEF RowSet
    <3>3. r.parent = s.parent /\ r.name = s.name /\ r.del = s.del
      BY <3>1, <3>2
    <3>4. s.parent # Absent
      BY <1>a, <3>1 DEF Live, Exists, Owned
    <3> HIDE DEF r
    <3> QED
      BY <1>a, <2>2, <2>3, <2>4, <3>1, <3>3, <3>4, Rewritten
  <2> QED
    BY <1>a, <2>2, <2>4, Wrote
<1>3. CASE MoveSave(t) /\ ~Rollback(t)
  <2>1. PICK f, p : f = tx[t].f /\ p = tx[t].to
    OBVIOUS
  <2> DEFINE r == [row[f] EXCEPT !.parent = p]
             d == NameRow(p, row[f].name)
  <2>2. /\ tx[t].pc = "save"
        /\ row' = [row EXCEPT ![f] = r] /\ dn' = [dn EXCEPT ![f] = d] /\ Commits(t)
    BY <1>3, <2>1 DEF MoveSave, At
  <2>3. f \in Folder /\ row[f] \in RowSet /\ p \in Folder \cup {Root}
    BY <1>a, <2>1, <2>2 DEF Subject
  <2>4. r.parent = p /\ r.del = row[f].del /\ r.name = row[f].name
    BY <2>3 DEF RowSet
  <2>5. ASSUME Tree, Fresh(tx[t]) PROVE Tree'
    <3>1. /\ Live(f) /\ (p \in Folder => Live(p))
          /\ p \in Folder => ~IsDescendantOf(p, f) /\ Depth(p) + 1 + SubtreeHeight(f) <= MaxDepth
          /\ Forest /\ ParentsExist
      BY <2>1, <2>2, <2>5 DEF Fresh, Tree
    <3>2. row[f].del = 0 /\ Owned(p) /\ p # f /\ (p \in Folder => f \notin Ancestors(p))
      BY <1>a, <2>3, <3>1 DEF Live, Owned, IsDescendantOf
    <3>3. ASSUME NEW g \in Folder, p \in Folder /\ (g = f \/ f \in Ancestors(g))
          PROVE  Depth(g) - Depth(f) + Depth(p) + 1 <= MaxDepth
      <4>1. row[g].parent # Absent
        <5>1. CASE g = f
          BY <3>1, <5>1 DEF Live, Exists
        <5>2. CASE f \in Ancestors(g)
          <6>1. Above(Parents, g) = UpTo(Parents, Parents[g])
            BY AboveParent
          <6>2. row[g].parent \in Folder
            BY <1>a, <5>2, <6>1, AncestorsAbove DEF UpTo
          <6> QED
            BY <1>a, <6>2
        <5> QED
          BY <3>3, <5>1, <5>2
      <4>2. g \in Subtree(f)
        BY <3>3, <4>1 DEF Subtree, IsDescendantOf
      <4>3. SubtreeHeight(f) \in Int /\ Depth(g) - Depth(f) <= SubtreeHeight(f)
        BY <2>3, <3>1, <4>2, TallEnough
      <4>4. Depth(f) \in Nat /\ Depth(g) \in Nat /\ Depth(p) \in Nat
        BY <1>a, <2>3, <3>3, DepthNat
      <4> QED
        BY <3>1, <3>3, <4>3, <4>4, DepthAssumption
    <3> HIDE DEF r
    <3> QED
      BY <1>a, <2>2, <2>3, <2>4, <2>5, <3>2, <3>3, Hung
  <2> QED
    BY <1>a, <2>2, <2>5, Wrote
<1> QED
  BY <1>r, <1>1, <1>2, <1>3

\* The folders of a subtree and their files: what is in one of the folders is one of
\* them, all but the top are in one of them and below the top, and what is above the
\* top is none of them.
LEMMA SubtreeAll ==
    ASSUME Typed, Tree, NEW f \in Folder
    PROVE  LET in == Subtree(f) \cup FilesOf(Subtree(f)) IN
           /\ in \subseteq Node
           /\ \A g \in in : Exists(g)
           /\ \A g \in Node : row[g].parent \in Subtree(f) => g \in in
           /\ \A g \in in : g # f => row[g].parent \in Subtree(f) /\ f \in Ancestors(g)
           /\ Ancestors(f) \cap in = {}
<1> DEFINE T == Subtree(f)
           in == T \cup FilesOf(T)
<1>a. /\ ParentsExist /\ Forest /\ Folder \subseteq Node /\ File \subseteq Node
      /\ Absent \notin Folder /\ T \subseteq Folder /\ Folder \cap File = {}
  BY RootAssumption, NodeAssumption DEF Tree, Node, Subtree
<1>1. in \subseteq Node /\ \A g \in in : Exists(g)
  BY <1>a DEF FilesOf, Exists, Subtree
<1>2. ASSUME NEW g \in Node, row[g].parent \in T PROVE g \in in
  <2>1. CASE g \in Folder
    BY <1>a, <1>2, <2>1, SubtreeDown
  <2>2. CASE g \notin Folder
    BY <1>2, <2>2 DEF FilesOf, Node
  <2> QED
    BY <2>1, <2>2
<1>3. ASSUME NEW g \in Node PROVE Ancestors(g) = UpTo(Parents, row[g].parent)
  BY AncestorsAbove, AboveParent
<1>4. ASSUME NEW g \in in, g # f PROVE row[g].parent \in T /\ f \in Ancestors(g)
  <2>1. CASE g \in T
    <3>1. g \in Node /\ f \in Ancestors(g)
      BY <1>a, <1>4, <2>1 DEF Subtree, IsDescendantOf
    <3>2. row[g].parent \in Folder
      BY <1>3, <3>1 DEF UpTo
    <3>3. IsDescendantOf(row[g].parent, f) /\ Exists(row[g].parent)
      BY <1>a, <1>4, <2>1, <3>1, <3>2, SubtreeDown DEF ParentsExist
    <3> QED
      BY <3>1, <3>2, <3>3 DEF Subtree, Exists
  <2>2. CASE g \in FilesOf(T)
    <3>1. g \in Node /\ row[g].parent \in T /\ row[g].parent \in Folder /\ row[g].parent \in Node
      BY <1>a, <2>2 DEF FilesOf
    <3>2. Ancestors(g) = {row[g].parent} \cup Ancestors(row[g].parent)
      BY <1>3, <3>1, AncestorsAbove DEF UpTo
    <3>3. row[g].parent = f \/ f \in Ancestors(row[g].parent)
      BY <3>1 DEF Subtree, IsDescendantOf
    <3> QED
      BY <3>1, <3>2, <3>3
  <2> QED
    BY <2>1, <2>2
<1>5. ASSUME NEW h \in Ancestors(f), h \in in PROVE FALSE
  <2>1. h \in Folder /\ h \in Node /\ f \in Node /\ h \in T
    BY <1>a, <1>5 DEF Ancestors, FilesOf
  <2>2. f \notin Ancestors(f)
    BY <1>a DEF Forest
  <2>3. f \in Ancestors(h)
    BY <1>5, <2>1, <2>2 DEF Subtree, IsDescendantOf
  <2>4. Above(Parents, h) \subseteq Above(Parents, f)
    BY <1>5, <2>1, AncestorsAbove, AboveTrans
  <2> QED
    BY <2>1, <2>2, <2>3, <2>4, AncestorsAbove
<1> QED
  BY <1>1, <1>2, <1>4, <1>5

\* A step that changes no parent keeps the forest.
LEMMA SameForest ==
    ASSUME Tree, \A f \in Node : row'[f].parent = row[f].parent
    PROVE  ParentsExist' /\ Forest'
<1>1. ParentsExist'
  BY SameWalks DEF Tree, ParentsExist, Node
<1>2. Forest'
  BY SameWalks DEF Tree, Forest, Node
<1> QED
  BY <1>1, <1>2

\* softDeleteFolder()
LEMMA DeleteSerial == ASSUME Inv, SerialInv, NEW t \in Handler, DeleteMark(t) PROVE SerialInv'
<1>a. /\ Inv' /\ Typed /\ row \in [Node -> RowSet] /\ dn \in [Node -> NameSet] /\ Folder \subseteq Node
      /\ 0 \notin Batch
  BY WriteStep, BatchAssumption DEF Inv, Typed, Node
<1>1. PICK f, ids, b : f = tx[t].f /\ ids = tx[t].ids /\ b = tx[t].batch
  OBVIOUS
<1> DEFINE in == ids \cup FilesOf(ids)
           marked == {g \in in : Live(g)}
<1>2. /\ tx[t].pc = "mark" /\ Commits(t)
      /\ row' = [g \in Node |-> IF g \in marked THEN [row[g] EXCEPT !.del = b] ELSE row[g]]
      /\ dn' = [g \in Node |-> IF g \in ids \cup marked THEN [dn[g] EXCEPT !.active = FALSE] ELSE dn[g]]
  BY <1>1, <1>a DEF DeleteMark, At
<1>3. ASSUME Tree, Fresh(tx[t]) PROVE Tree'
  <2>1. /\ f \in Folder /\ ids = Subtree(f) /\ b \in Batch /\ \A g \in Node : row[g].del # b
        /\ LiveInLive /\ NamesAgree /\ BatchesWhole /\ b # 0
    BY <1>a, <1>1, <1>2, <1>3 DEF Fresh, Tree
  <2>2. /\ in \subseteq Node /\ ids \subseteq in
        /\ \A g \in in : Exists(g)
        /\ \A g \in Node : row[g].parent \in ids => g \in in
        /\ \A g \in in : g # f => row[g].parent \in ids
        /\ Ancestors(f) \cap in = {}
    BY <1>a, <1>3, <2>1, SubtreeAll
  <2>3. \A g \in Node : /\ row'[g].parent = row[g].parent /\ row'[g].name = row[g].name
                        /\ row'[g].del = IF g \in marked THEN b ELSE row[g].del
    <3>1. \A x \in RowSet : /\ [x EXCEPT !.del = b].parent = x.parent
                            /\ [x EXCEPT !.del = b].name = x.name /\ [x EXCEPT !.del = b].del = b
      BY DEF RowSet
    <3> HIDE DEF marked
    <3> QED
      BY <1>a, <1>2, <3>1
  <2>4. \A g \in Node : /\ dn'[g].scope = dn[g].scope /\ dn'[g].name = dn[g].name
                        /\ dn'[g].active = IF g \in ids \cup marked THEN FALSE ELSE dn[g].active
    <3>1. \A x \in NameSet : /\ [x EXCEPT !.active = FALSE].scope = x.scope
                             /\ [x EXCEPT !.active = FALSE].name = x.name /\ [x EXCEPT !.active = FALSE].active = FALSE
      BY DEF NameSet
    <3> HIDE DEF marked
    <3> QED
      BY <1>a, <1>2, <3>1
  <2>5. \A g \in Node : /\ g \in marked <=> g \in in /\ Live(g)
                        /\ Live(g)' <=> Live(g) /\ g \notin in
    BY <2>1, <2>3 DEF Live, Exists
  <2> HIDE DEF marked, in
  <2>6. ParentsExist' /\ Forest'
    BY <1>3, <2>3, SameForest
  <2>7. LiveInLive'
    <3> SUFFICES ASSUME NEW g \in Node, Live(g)', row'[g].parent \in Folder PROVE Live(row[g].parent)'
      BY DEF LiveInLive
    <3>1. PICK p : p = row[g].parent
      OBVIOUS
    <3>2. p \in Folder /\ p \in Node /\ row'[g].parent = p /\ Live(p) /\ g \notin in
      BY <1>a, <2>1, <2>3, <2>5, <3>1 DEF LiveInLive
    <3>3. p \notin in
      <4>1. p \notin ids
        BY <2>2, <3>1, <3>2
      <4>2. p \notin FilesOf(ids)
        BY <3>2, NodeAssumption DEF FilesOf
      <4> QED
        BY <4>1, <4>2 DEF in
    <3>4. Live(p)'
      BY <2>5, <3>2, <3>3
    <3> QED
      BY <3>2, <3>4
  <2>8. NamesAgree'
    <3> SUFFICES ASSUME NEW g \in Node
                 PROVE  /\ dn'[g].active <=> Live(g)'
                        /\ Live(g)' => dn'[g].scope = row'[g].parent /\ dn'[g].name = row'[g].name
      BY DEF NamesAgree
    <3>1. /\ dn[g].active <=> Live(g)
          /\ Live(g) => dn[g].scope = row[g].parent /\ dn[g].name = row[g].name
      BY <2>1 DEF NamesAgree
    <3> QED
      BY <2>2, <2>3, <2>4, <2>5, <3>1
  <2>9. BatchesWhole'
    <3> SUFFICES ASSUME NEW g \in Node, row'[g].del # 0, NEW h \in Ancestors(g)',
                        row'[h].del = row'[g].del
                 PROVE  row'[row'[g].parent].del = row'[g].del
      BY DEF BatchesWhole
    <3>1. h \in Ancestors(g) /\ h \in Node
      BY <1>a, <2>3, SameWalks DEF Ancestors
    <3>2. PICK p : p = row[g].parent
      OBVIOUS
    <3>3. p \in Folder /\ p \in Node
      <4>1. Above(Parents, g) = UpTo(Parents, Parents[g])
        BY AboveParent
      <4> QED
        BY <1>a, <3>1, <3>2, <4>1, AncestorsAbove DEF UpTo
    <3>4. CASE g \in marked
      <4>1. row'[g].del = b /\ h \in marked /\ Live(g) /\ g \in in
        BY <2>1, <2>3, <2>5, <3>1, <3>4
      <4>2. g # f
        BY <2>2, <2>5, <3>1, <4>1
      <4>3. p \in in /\ Live(p)
        BY <2>1, <2>2, <3>2, <3>3, <4>1, <4>2 DEF LiveInLive
      <4> QED
        BY <2>3, <2>5, <3>2, <3>3, <4>1, <4>3
    <3>5. CASE g \notin marked
      <4>1. row'[g].del = row[g].del /\ row[h].del = row[g].del /\ row[g].del # 0
        BY <2>1, <2>3, <3>1, <3>5
      <4>2. row[p].del = row[g].del
        BY <2>1, <3>1, <3>2, <4>1 DEF BatchesWhole
      <4>3. p \notin marked
        BY <2>5, <3>3, <4>1, <4>2 DEF Live
      <4> QED
        BY <2>3, <3>2, <3>3, <4>1, <4>2, <4>3
    <3> QED
      BY <3>4, <3>5
  <2> QED
    BY <2>6, <2>7, <2>8, <2>9 DEF Tree
<1> QED
  BY <1>a, <1>2, <1>3, Wrote

\* restoreFolder()
LEMMA RestoreSerial == ASSUME Inv, SerialInv, NEW t \in Handler, RestoreUnmark(t) PROVE SerialInv'
<1>a. /\ Inv' /\ Typed /\ row \in [Node -> RowSet] /\ dn \in [Node -> NameSet] /\ Folder \subseteq Node
  BY WriteStep DEF Inv, Typed, Node
<1>r. CASE Rollback(t)
  BY <1>r, RollbackSerial
<1>1. PICK f, ids, b : f = tx[t].f /\ ids = tx[t].ids /\ b = tx[t].batch
  OBVIOUS
<1> DEFINE in == ids \cup FilesOf(ids)
           batch == {g \in in : row[g].del = b}
           back == batch \cup {g \in in : Live(g)}
<1>c. CASE ~Rollback(t)
  <2>1. /\ tx[t].pc = "unmark" /\ Commits(t)
        /\ row' = [g \in Node |-> IF g \in batch THEN [row[g] EXCEPT !.del = 0] ELSE row[g]]
        /\ dn' = [g \in Node |-> IF g \in back THEN NameRow(row[g].parent, row[g].name) ELSE dn[g]]
    BY <1>1, <1>c DEF RestoreUnmark, At
  <2>2. ASSUME Tree, Fresh(tx[t]) PROVE Tree'
    <3>1. /\ f \in Folder /\ ids = Subtree(f) /\ row[f].del = b /\ b # 0 /\ Exists(f)
          /\ \A g \in Ancestors(f) : Live(g)
          /\ LiveInLive /\ NamesAgree /\ BatchesWhole
      BY <1>1, <2>1, <2>2 DEF Fresh, Tree
    <3>2. /\ in \subseteq Node /\ ids \subseteq in
          /\ \A g \in in : Exists(g)
          /\ \A g \in Node : row[g].parent \in ids => g \in in
          /\ \A g \in in : g # f => row[g].parent \in ids /\ f \in Ancestors(g)
      BY <1>a, <2>2, <3>1, SubtreeAll
    <3>3. \A g \in Node : /\ row'[g].parent = row[g].parent /\ row'[g].name = row[g].name
                          /\ row'[g].del = IF g \in batch THEN 0 ELSE row[g].del
      <4>1. \A x \in RowSet : /\ [x EXCEPT !.del = 0].parent = x.parent
                              /\ [x EXCEPT !.del = 0].name = x.name /\ [x EXCEPT !.del = 0].del = 0
        BY DEF RowSet
      <4> HIDE DEF batch
      <4> QED
        BY <1>a, <2>1, <4>1
    <3>4. \A g \in Node : /\ g \in batch <=> g \in in /\ row[g].del = b
                          /\ g \in back <=> g \in in /\ (row[g].del = b \/ Live(g))
                          /\ Live(g)' <=> Live(g) \/ g \in batch
      BY <3>1, <3>2, <3>3 DEF Live, Exists
    <3> HIDE DEF in, batch, back
    <3>5. ParentsExist' /\ Forest'
      BY <2>2, <3>3, SameForest
    <3>6. LiveInLive'
      <4> SUFFICES ASSUME NEW g \in Node, Live(g)', row'[g].parent \in Folder PROVE Live(row[g].parent)'
        BY DEF LiveInLive
      <4>1. PICK p : p = row[g].parent
        OBVIOUS
      <4>2. p \in Folder /\ p \in Node /\ row'[g].parent = p
        BY <1>a, <3>3, <4>1
      <4>3. Live(p) \/ p \in batch
        <5>1. CASE Live(g)
          BY <3>1, <4>1, <4>2, <5>1 DEF LiveInLive
        <5>2. CASE g = f
          <6>1. p \in Ancestors(f)
            BY <3>1, <4>1, <4>2, <5>2, ParentIsAncestor
          <6> QED
            BY <3>1, <6>1
        <5>3. CASE g \in batch /\ g # f
          <6>1. g \in in /\ row[g].del = b /\ p \in ids /\ f \in Ancestors(g)
            BY <3>2, <3>4, <4>1, <5>3
          <6>2. row[p].del = b
            BY <3>1, <4>1, <6>1 DEF BatchesWhole
          <6> QED
            BY <3>2, <3>4, <4>2, <6>1, <6>2
        <5> QED
          BY <3>4, <5>1, <5>2, <5>3
      <4>4. Live(p)'
        BY <3>4, <4>2, <4>3
      <4> QED
        BY <4>2, <4>4
    <3>7. NamesAgree'
      <4> SUFFICES ASSUME NEW g \in Node
                   PROVE  /\ dn'[g].active <=> Live(g)'
                          /\ Live(g)' => dn'[g].scope = row'[g].parent /\ dn'[g].name = row'[g].name
        BY DEF NamesAgree
      <4>1. CASE g \in back
        <5>1. dn'[g] = NameRow(row[g].parent, row[g].name)
          BY <2>1, <4>1
        <5>2. Live(g)'
          BY <3>4, <4>1
        <5> QED
          BY <3>3, <5>1, <5>2 DEF NameRow
      <4>2. CASE g \notin back
        <5>1. dn'[g] = dn[g] /\ g \notin batch
          BY <2>1, <3>4, <4>2
        <5> QED
          BY <3>1, <3>3, <3>4, <5>1 DEF NamesAgree
      <4> QED
        BY <4>1, <4>2
    <3>8. BatchesWhole'
      <4> SUFFICES ASSUME NEW g \in Node, row'[g].del # 0, NEW h \in Ancestors(g)',
                          row'[h].del = row'[g].del
                   PROVE  row'[row'[g].parent].del = row'[g].del
        BY DEF BatchesWhole
      <4>1. h \in Ancestors(g) /\ h \in Node
        BY <1>a, <3>3, SameWalks DEF Ancestors
      <4>2. PICK p : p = row[g].parent
        OBVIOUS
      <4>3. p \in Folder /\ p \in Node
        <5>1. Above(Parents, g) = UpTo(Parents, Parents[g])
          BY AboveParent
        <5> QED
          BY <1>a, <4>1, <4>2, <5>1, AncestorsAbove DEF UpTo
      <4>4. g \notin batch /\ h \notin batch /\ row[h].del = row[g].del /\ row[g].del # 0
        BY <3>3, <4>1
      <4>5. row[p].del = row[g].del
        BY <3>1, <4>1, <4>2, <4>4 DEF BatchesWhole
      <4>6. p \notin batch
        <5> SUFFICES ASSUME p \in batch PROVE FALSE
          OBVIOUS
        <5>1. p \in in /\ row[g].del = b
          BY <3>4, <4>3, <4>5
        <5>2. p \in ids
          BY <4>3, <5>1, NodeAssumption DEF in, FilesOf
        <5> QED
          BY <3>2, <3>4, <4>2, <4>4, <5>1, <5>2
      <4> QED
        BY <3>3, <4>2, <4>3, <4>4, <4>5, <4>6
    <3> QED
      BY <3>5, <3>6, <3>7, <3>8 DEF Tree
  <2> QED
    BY <1>a, <2>1, <2>2, Wrote
<1> QED
  BY <1>r, <1>c

\* Every step of any handler keeps what the handlers that nobody overlaps rely on.
LEMMA SerialStep == ASSUME Inv, SerialInv, [Next]_vars PROVE SerialInv'
<1>1. CASE UNCHANGED vars
  <2>1. Inv' /\ row' = row /\ dn' = dn /\ raced' = raced /\ tx' = tx
    BY <1>1 DEF vars, Inv, Typed, Subject, MoveHolds, LocksHeldByMoves, LockedExist, Exists
  <2> QED
    BY <2>1, Unwritten
<1>2. CASE Next
  <2>1. PICK t \in Handler :
           \/ CreateCheck(t) \/ RenameRead(t) \/ FileRead(t) \/ MoveBegin(t) \/ DeleteCollect(t) \/ RestoreCollect(t)
           \/ Step(t)
    BY <1>2 DEF Next
  <2>2. CASE Step(t)
    BY <2>2, InnerStepSerial, PlaceStepSerial, DeleteSerial, RestoreSerial DEF Step
  <2> QED
    BY <2>1, <2>2, BeginStepSerial
<1> QED
  BY <1>1, <1>2

\* The tree to begin with is one.
LEMMA SerialInit == Init => SerialInv
<1> SUFFICES ASSUME Init PROVE SerialInv
  OBVIOUS
<1>1. /\ row = [f \in Node |-> [parent |-> Start[f], name |-> StartName[f], del |-> 0]]
      /\ \A f \in Node : /\ row[f].parent = Start[f] /\ row[f].del = 0 /\ row[f].name = StartName[f]
                         /\ dn[f] = [scope |-> Start[f], name |-> StartName[f], active |-> Start[f] # Absent]
      /\ Folder \subseteq Node
  BY DEF Init, Node
<1>2. PICK depth \in [Folder -> 0..MaxDepth] :
         \A f \in Node : Start[f] \in Folder =>
             Start[Start[f]] # Absent /\ (f \in Folder => depth[Start[f]] < depth[f])
  BY StartIsTree
<1>3. ParentsExist
  BY <1>1, <1>2 DEF ParentsExist, Exists
<1>4. Forest
  <2>1. \A f \in Folder : Parents[f] \in Folder => depth[Parents[f]] < depth[f]
    BY <1>1, <1>2 DEF Parents
  <2>2. \A f \in Folder : f \notin Above(Parents, f) /\ Cardinality(Above(Parents, f)) <= MaxDepth
    BY <2>1, Ranked
  <2> QED
    BY <1>1, <2>2, AncestorsAbove DEF Forest, Depth
<1>5. LiveInLive
  BY <1>1, <1>3 DEF LiveInLive, ParentsExist, Live
<1>6. NamesAgree
  <2> SUFFICES ASSUME NEW f \in Node
               PROVE  /\ dn[f].active <=> Live(f)
                      /\ Live(f) => dn[f].scope = row[f].parent /\ dn[f].name = row[f].name
    BY DEF NamesAgree
  <2>1. (dn[f].active <=> Start[f] # Absent) /\ dn[f].scope = Start[f] /\ dn[f].name = StartName[f]
    <3>1. PICK active \in BOOLEAN : active = (Start[f] # Absent)
      OBVIOUS
    <3>2. dn[f] = [scope |-> Start[f], name |-> StartName[f], active |-> active]
      BY <1>1, <3>1, Zenon
    <3>3. dn[f].active = active /\ dn[f].scope = Start[f] /\ dn[f].name = StartName[f]
      BY <3>2
    <3> QED
      BY <3>1, <3>3
  <2>2. Live(f) <=> Start[f] # Absent
    BY <1>1 DEF Live, Exists
  <2> QED
    BY <1>1, <2>1, <2>2
<1>7. BatchesWhole
  BY <1>1 DEF BatchesWhole
<1>8. \A t \in Handler : Fresh(tx[t])
  BY DEF Init, Fresh, Idle
<1> QED
  BY <1>3, <1>4, <1>5, <1>6, <1>7, <1>8 DEF SerialInv, Tree

\* Whatever sequence of creations, renames, moves, deletions and restores runs, of any
\* length and on any folders, as long as no handler commits over another's commit the
\* folders are a forest within MAX_FOLDER_DEPTH, nothing live is in a deleted folder and
\* directory_names holds the names of what is live where it is.
THEOREM TreeIsKept == Spec => []SerialTree
<1>1. SerialInv => SerialTree
  BY DEF SerialInv, Tree, Forest, LiveInLive, NamesAgree, SerialTree, SerialShape, SerialLive, SerialNames
<1>2. Inv /\ SerialInv /\ [Next]_vars => SerialInv'
  BY SerialStep
<1> QED
  BY <1>1, <1>2, SerialInit, Invariant, PTL DEF Spec
=============================================================================
