---------------------------- MODULE FolderTree ----------------------------
(***************************************************************************)
(* One user's folders and files and their names, changed by concurrent     *)
(* handlers                                                                *)
(* (backend/src/folder/folder.service.ts,                                  *)
(* common/services/directory-namespace.service.ts).                        *)
(*                                                                         *)
(* The tables are on PostgreSQL at READ COMMITTED.  Only a move takes row  *)
(* locks before it checks; the other handlers check first and then write   *)
(* in a transaction that commits in one step here, once no move holds the  *)
(* rows it writes.  The checks of a handler are read as one snapshot:      *)
(* `raced' tells apart what a commit in between could have changed.        *)
(* A refused handler changes nothing and is not a step.                    *)
(***************************************************************************)
EXTENDS Integers, FiniteSets, FiniteSetsExt

CONSTANTS
    Folder,      \* folder ids
    File,        \* file ids
    Root,        \* parentId NULL, scopeKey '__root__'
    Absent,      \* the parent of an id with no row
    Name, NoName,
    Handler,     \* bound: handlers in flight
    Nobody,
    Batch,       \* bound: deletion times in use at once
    MaxDepth,    \* MAX_FOLDER_DEPTH
    Start,       \* the tree at the beginning: parents
    StartName,
    Ops          \* the handlers in use

Node == Folder \cup File

ASSUME NodeAssumption == Folder \cap File = {} /\ IsFiniteSet(Folder)
ASSUME RootAssumption == Root \notin Node /\ Absent \notin Node \cup {Root}
ASSUME NobodyAssumption == Nobody \notin Handler
ASSUME BatchAssumption == Batch \subseteq Nat \ {0}
ASSUME DepthAssumption == MaxDepth \in Nat
ASSUME StartAssumption == Start \in [Node -> Folder \cup {Root, Absent}] /\ StartName \in [Node -> Name \cup {NoName}]
\* The tree at the beginning is one: every parent has a row, and is less deep.
ASSUME StartIsTree ==
    \E depth \in [Folder -> 0..MaxDepth] :
        \A f \in Node : Start[f] \in Folder =>
            Start[Start[f]] # Absent /\ (f \in Folder => depth[Start[f]] < depth[f])

VARIABLES
    row,    \* folders and files: parentId or folderId, name, and the batch it was deleted in (0: live)
    dn,     \* directory_names: scopeKey, nameKey, active
    lock,   \* rows held FOR UPDATE
    tx,     \* the handlers
    raced   \* history: a handler committed over the commit of another

vars == <<row, dn, lock, tx, raced>>

Idle == [pc |-> "idle", f |-> Root, to |-> Root, name |-> NoName,
         snap |-> <<>>, cols |-> {}, ids |-> {}, batch |-> 0, alone |-> TRUE]

Init ==
    /\ row = [f \in Node |-> [parent |-> Start[f], name |-> StartName[f], del |-> 0]]
    /\ dn = [f \in Node |-> [scope |-> Start[f], name |-> StartName[f], active |-> Start[f] # Absent]]
    /\ lock = [f \in Folder |-> Nobody]
    /\ tx = [t \in Handler |-> Idle]
    /\ raced = FALSE

----------------------------------------------------------------------------
(* Walks over parentId.                                                    *)

\* Every folder above f, f itself only on a cycle: what every set that holds f's
\* parent and the parents of its members holds.
Ancestors(f) ==
    LET up(g, S) == row[g].parent \in Folder => row[g].parent \in S IN
    {a \in Folder : \A S \in SUBSET Folder :
                        up(f, S) /\ (\A g \in S : up(g, S)) => a \in S}
\* isDescendantOfInManager()
IsDescendantOf(f, a) == f = a \/ a \in Ancestors(f)
\* getFolderDepth(): 0 for a folder of the root.
Depth(f) == Cardinality(Ancestors(f))
\* collectSubtreeIds() and getSubtreeHeightInManager(): deleted folders count.
Subtree(f) == {g \in Folder : row[g].parent # Absent /\ IsDescendantOf(g, f)}
SubtreeHeight(f) == Max({Depth(g) - Depth(f) : g \in Subtree(f)})

Exists(f) == row[f].parent # Absent
Live(f) == Exists(f) /\ row[f].del = 0
\* assertFolderOwned(), the root always being there.
Owned(p) == p = Root \/ (p \in Folder /\ Live(p))
\* The files of a set of folders, when their rows are written.
FilesOf(ids) == {x \in File : row[x].parent \in ids}
\* The sibling check before a write looks at folders only.
Sibling(f, p, n) == \E g \in Folder \ {f} : Live(g) /\ row[g].parent = p /\ row[g].name = n
\* The two unique indexes, for a row and a name row to be written.  NULL parents
\* are all different to the index on folders.
Conflict(f, r, d) ==
    \E g \in Node \ {f} :
        \/ {f, g} \subseteq Folder /\ Live(g) /\ r.del = 0 /\ r.parent # Root /\ row[g].parent = r.parent /\ row[g].name = r.name
        \/ dn[g].active /\ dn[g].scope = d.scope /\ dn[g].name = d.name

NameRow(p, n) == [scope |-> p, name |-> n, active |-> TRUE]
Held(t, f) == lock[f] \notin {Nobody, t}
Released(t) == [f \in Folder |-> IF lock[f] = t THEN Nobody ELSE lock[f]]

\* Ends a transaction: the others in flight are overlapped by a commit.
Commits(t) ==
    /\ tx' = [u \in Handler |-> IF u = t THEN Idle
                                ELSE IF tx[u].pc = "idle" THEN tx[u] ELSE [tx[u] EXCEPT !.alone = FALSE]]
    /\ lock' = Released(t)
    /\ raced' = (raced \/ ~tx[t].alone)
\* A refusal inside the transaction, or a unique violation, rolls it back.
Rollback(t) ==
    /\ tx' = [tx EXCEPT ![t] = Idle] /\ lock' = Released(t)
    /\ UNCHANGED <<row, dn, raced>>

\* A handler starts; bound: none does after a race, or while an overlapped one
\* has not ended.
Begins(t, op, new) ==
    /\ tx[t].pc = "idle" /\ op \in Ops
    /\ ~raced /\ \A u \in Handler : tx[u].alone
    /\ tx' = [tx EXCEPT ![t] = new]
    /\ UNCHANGED <<row, dn, lock, raced>>
At(t, p) == tx[t].pc = p
Goes(t, p) == tx' = [tx EXCEPT ![t].pc = p] /\ UNCHANGED <<row, dn, raced>>

----------------------------------------------------------------------------
(* createFolder().                                                         *)

CreateCheck(t) ==
    \E p \in Folder \cup {Root}, n \in Name :
        /\ Owned(p) /\ (p \in Folder => Depth(p) + 1 <= MaxDepth)
        /\ \A f \in Folder : ~(Live(f) /\ row[f].parent = p /\ row[f].name = n)
        /\ Begins(t, "create", [Idle EXCEPT !.pc = "insert", !.to = p, !.name = n])

\* The foreign key waits for a move that holds the parent.
Insert(t) ==
    /\ At(t, "insert") /\ (tx[t].to \in Folder => lock[tx[t].to] = Nobody)
    /\ LET d == NameRow(tx[t].to, tx[t].name) IN
       \E f \in Folder :
          LET r == [parent |-> tx[t].to, name |-> tx[t].name, del |-> 0] IN
          /\ ~Exists(f)
          /\ IF Conflict(f, r, d) THEN Rollback(t)
             ELSE row' = [row EXCEPT ![f] = r] /\ dn' = [dn EXCEPT ![f] = d] /\ Commits(t)

----------------------------------------------------------------------------
(* renameFolder(), renameFile() and moveFile(): the row is read outside    *)
(* the transaction; save() reads it again and writes every column in which *)
(* its entity differs.                                                     *)

RenameRead(t) ==
    \E f \in Folder, n \in Name :
        /\ Live(f) /\ n # row[f].name /\ ~Sibling(f, row[f].parent, n)
        /\ Begins(t, "rename", [Idle EXCEPT !.pc = "reload", !.f = f, !.snap = [row[f] EXCEPT !.name = n]])

FileRead(t) ==
    \E f \in File, s \in [parent : Folder \cup {Root}, name : Name, del : {0}] :
        /\ Live(f) /\ \/ s.parent # row[f].parent /\ s.name = row[f].name /\ Owned(s.parent)
                      \/ s.parent = row[f].parent /\ s.name # row[f].name
        /\ Begins(t, "file", [Idle EXCEPT !.pc = "reload", !.f = f, !.snap = s])

Reload(t) ==
    /\ At(t, "reload")
    /\ tx' = [tx EXCEPT ![t].pc = "update",
                        ![t].cols = {c \in DOMAIN tx[t].snap : tx[t].snap[c] # row[tx[t].f][c]}]
    /\ UNCHANGED <<row, dn, lock, raced>>

Update(t) ==
    /\ At(t, "update")
    /\ LET f == tx[t].f
           r == [c \in DOMAIN row[f] |-> IF c \in tx[t].cols THEN tx[t].snap[c] ELSE row[f][c]]
           d == NameRow(tx[t].snap.parent, tx[t].snap.name) IN
       /\ f \in Folder /\ tx[t].cols # {} => lock[f] = Nobody
       /\ "parent" \in tx[t].cols /\ r.parent \in Folder => lock[r.parent] = Nobody
       /\ IF Conflict(f, r, d) THEN Rollback(t)
          ELSE row' = [row EXCEPT ![f] = r] /\ dn' = [dn EXCEPT ![f] = d] /\ Commits(t)

----------------------------------------------------------------------------
(* moveFolder(): locks the folder, then its new parent, then checks.       *)

MoveBegin(t) ==
    \E f \in Folder, p \in Folder \cup {Root} :
        /\ Exists(f) /\ p # f
        /\ Begins(t, "move", [Idle EXCEPT !.pc = "lockself", !.f = f, !.to = p])

LockSelf(t) ==
    /\ At(t, "lockself") /\ ~Held(t, tx[t].f)
    /\ IF Live(tx[t].f)
       THEN /\ lock' = [lock EXCEPT ![tx[t].f] = t]
            /\ Goes(t, IF tx[t].to = Root THEN "check" ELSE "lockparent")
       ELSE Rollback(t)

\* mutant: the new parent is read without FOR UPDATE.
LockParentNot(t) ==
    /\ At(t, "lockparent")
    /\ IF Live(tx[t].to) THEN Goes(t, "check") /\ UNCHANGED lock ELSE Rollback(t)

LockParent(t) ==
    /\ At(t, "lockparent") /\ ~Held(t, tx[t].to)
    /\ IF Live(tx[t].to)
       THEN lock' = [lock EXCEPT ![tx[t].to] = t] /\ Goes(t, "check")
       ELSE Rollback(t)

\* PostgreSQL ends one of two transactions that wait for each other.
Deadlock(t) ==
    /\ At(t, "lockparent")
    /\ \E u \in Handler \ {t} : /\ lock[tx[t].to] = u
                                /\ At(u, "lockparent") /\ lock[tx[u].to] = t
    /\ Rollback(t)

\* mutant: a refused move keeps its locks.
MoveRefusedLocked(t) ==
    /\ At(t, "check")
    /\ IF tx[t].to \in Folder => ~IsDescendantOf(tx[t].to, tx[t].f)
       THEN Goes(t, "save") /\ UNCHANGED lock
       ELSE tx' = [tx EXCEPT ![t] = Idle] /\ UNCHANGED <<row, dn, lock, raced>>

MoveCheck(t) ==
    /\ At(t, "check")
    /\ LET f == tx[t].f
           p == tx[t].to IN
       IF /\ p \in Folder => /\ ~IsDescendantOf(p, f)
                             /\ Depth(p) + 1 + SubtreeHeight(f) <= MaxDepth
          /\ ~Sibling(f, p, row[f].name)
       THEN Goes(t, "save") /\ UNCHANGED lock
       ELSE Rollback(t)

MoveSave(t) ==
    /\ At(t, "save")
    /\ LET f == tx[t].f
           r == [row[f] EXCEPT !.parent = tx[t].to]
           d == NameRow(tx[t].to, row[f].name) IN
       IF Conflict(f, r, d) THEN Rollback(t)
       ELSE row' = [row EXCEPT ![f] = r] /\ dn' = [dn EXCEPT ![f] = d] /\ Commits(t)

----------------------------------------------------------------------------
(* softDeleteFolder() and restoreFolder().                                 *)

\* mutant: only the folder itself is deleted.
DeleteCollectSelf(t) ==
    \E f \in Folder, b \in Batch :
        /\ Live(f) /\ (\A g \in Node : row[g].del # b) /\ (\A u \in Handler : tx[u].batch # b)
        /\ Begins(t, "delete", [Idle EXCEPT !.pc = "mark", !.f = f, !.ids = {f}, !.batch = b])

DeleteCollect(t) ==
    \E f \in Folder, b \in Batch :
        /\ Live(f) /\ (\A g \in Node : row[g].del # b) /\ (\A u \in Handler : tx[u].batch # b)
        /\ Begins(t, "delete", [Idle EXCEPT !.pc = "mark", !.f = f, !.ids = Subtree(f), !.batch = b])

DeleteMark(t) ==
    /\ At(t, "mark")
    /\ \A f \in tx[t].ids : Live(f) => lock[f] = Nobody
    /\ LET marked == {f \in tx[t].ids \cup FilesOf(tx[t].ids) : Live(f)} IN
       /\ row' = [f \in Node |-> IF f \in marked THEN [row[f] EXCEPT !.del = tx[t].batch] ELSE row[f]]
       /\ dn' = [f \in Node |-> IF f \in tx[t].ids \cup marked THEN [dn[f] EXCEPT !.active = FALSE] ELSE dn[f]]
    /\ Commits(t)

RestoreCollect(t) ==
    \E f \in Folder :
        /\ Exists(f) /\ row[f].del # 0 /\ \A g \in Ancestors(f) : Live(g)
        /\ Begins(t, "restore", [Idle EXCEPT !.pc = "unmark", !.f = f, !.ids = Subtree(f), !.batch = row[f].del])

\* Restores the batch and takes the names of every live folder of the subtree.
RestoreUnmark(t) ==
    /\ At(t, "unmark")
    /\ LET in == tx[t].ids \cup FilesOf(tx[t].ids)
           batch == {f \in in : row[f].del = tx[t].batch}
           back == batch \cup {f \in in : Live(f)}
           r == [f \in Node |-> IF f \in batch THEN [row[f] EXCEPT !.del = 0] ELSE row[f]]
           d == [f \in Node |-> IF f \in back THEN NameRow(row[f].parent, row[f].name) ELSE dn[f]] IN
       /\ \A f \in batch \cap Folder : lock[f] = Nobody
       /\ IF \E f \in back : Conflict(f, r[f], d[f]) THEN Rollback(t)
          ELSE row' = r /\ dn' = d /\ Commits(t)

----------------------------------------------------------------------------
Step(t) ==
    \/ Insert(t) \/ Reload(t) \/ Update(t)
    \/ LockSelf(t) \/ LockParent(t) \/ Deadlock(t) \/ MoveCheck(t) \/ MoveSave(t)
    \/ DeleteMark(t) \/ RestoreUnmark(t)

Next ==
    \E t \in Handler :
        \/ CreateCheck(t) \/ RenameRead(t) \/ FileRead(t) \/ MoveBegin(t) \/ DeleteCollect(t) \/ RestoreCollect(t)
        \/ Step(t)

Spec == Init /\ [][Next]_vars

----------------------------------------------------------------------------
(* Properties.                                                             *)

\* Every variable keeps its type.
TypeOK ==
    /\ row \in [Node -> [parent : Folder \cup {Root, Absent}, name : Name \cup {NoName}, del : {0} \cup Batch]]
    /\ dn \in [Node -> [scope : Folder \cup {Root, Absent}, name : Name \cup {NoName}, active : BOOLEAN]]
    /\ lock \in [Folder -> Handler \cup {Nobody}]
    /\ \A t \in Handler :
        /\ tx[t].pc \in {"idle", "insert", "reload", "update", "lockself", "lockparent", "check",
                         "save", "mark", "unmark"}
        /\ tx[t].f \in Node \cup {Root} /\ tx[t].to \in Folder \cup {Root} /\ tx[t].name \in Name \cup {NoName}
        /\ tx[t].ids \subseteq Folder /\ tx[t].batch \in {0} \cup Batch /\ tx[t].alone \in BOOLEAN
    /\ raced \in BOOLEAN

\* Handlers that are not overlapped by another's commit keep a forest within the
\* depth limit, deleted folders included, through every sequence of them.
SerialShape ==
    ~raced => \A f \in Folder : Exists(f) => f \notin Ancestors(f) /\ Depth(f) <= MaxDepth

\* Likewise a live folder or file is in a live folder: no phantom roots.
SerialLive ==
    ~raced => \A f \in Node : Live(f) /\ row[f].parent \in Folder => Live(row[f].parent)

\* Likewise directory_names holds exactly the names of what is live, where it is.
SerialNames ==
    ~raced => \A f \in Node :
        /\ dn[f].active <=> Live(f)
        /\ Live(f) => dn[f].scope = row[f].parent /\ dn[f].name = row[f].name

\* Handlers that are not overlapped by another's commit keep a forest of live names:
\* no cycle, no folder too deep, nothing live in a deleted folder, and names in
\* directory_names where they are, through every sequence of them.
SerialTree == SerialShape /\ SerialLive /\ SerialNames

\* Two moves, however they interleave, never make two folders each other's parent:
\* when a move commits, its new parent is not a child of the moved folder.
MovesNeverSwap ==
    [][\A t \in Handler : At(t, "save") /\ row' # row =>
        LET f == tx[t].f
            p == tx[t].to IN
        (tx'[t].pc = "idle" /\ row'[f].parent = p /\ p \in Folder) => row[p].parent # f]_vars

\* No row stays locked: a row held FOR UPDATE is the folder or the new parent of a
\* move in flight, on every way out of it.
LocksHeldByMoves ==
    \A f \in Folder : lock[f] # Nobody =>
        /\ tx[lock[f]].pc \in {"lockparent", "check", "save"}
        /\ f \in {tx[lock[f]].f, tx[lock[f]].to}

\* The state is well formed: every variable keeps its type, and every way out of a
\* move gives its row locks back.
WellFormed == TypeOK /\ LocksHeldByMoves
=============================================================================
