--------------------------- MODULE Reconciliation ---------------------------
(***************************************************************************)
(* The cycles that bring two replicas back in sync after their users have  *)
(* changed them: detection of the changes, conflict finder, resolver or    *)
(* generator, sorter, and the effect of each operation on the file         *)
(* systems, the database and the update trees (executorworker.cpp). The    *)
(* users are quiet while the cycles run, and the jobs succeed whenever     *)
(* what they check and what they need is there.                            *)
(***************************************************************************)
EXTENDS OperationSorter

CONSTANTS
    Starts,     \* the file systems, rows and contents to begin with
    MaxId       \* bound on the ids

VARIABLES
    pc,
    queue,      \* the conflicts that are left
    ops,        \* the operations of the cycle
    done,       \* those that are executed
    orphans,    \* _registeredOrphans
    completed,  \* _syncHasFullyCompleted
    restart,    \* _restart
    changed,    \* the replicas are not those of the last detection
    outcome,    \* what became of the last operation
    kept        \* the contents the users wrote, with what they deserve

vars == <<fs, db, tree, downward, pc, queue, ops, done, orphans, completed, restart,
          changed, outcome, kept>>

Ids == 1..MaxId
Outcomes == {"applied", "ignored", "refused", "blocked", "failed"}

\* Items are in folders that exist, no two of one folder have the same name, and none
\* is under itself: of any items one is in none of the others.
IsTree(f) ==
    /\ \A i \in DOMAIN f : /\ i \in Ids /\ DOMAIN f[i] = {"parent", "name", "dir", "ver"}
                           /\ f[i].parent = Root \/ (f[i].parent \in DOMAIN f /\ f[f[i].parent].dir)
    /\ \A i, j \in DOMAIN f : f[i].parent = f[j].parent /\ f[i].name = f[j].name => i = j
    /\ \A S \in SUBSET DOMAIN f : S # {} => \E i \in S : f[i].parent \notin S

\* Rows are in rows that exist, and no two of them are of the same remote item.
AreRows(rows) ==
    /\ \A r \in DOMAIN rows : /\ {r, rows[r].remote} \subseteq Ids
                              /\ DOMAIN rows[r] = {"remote", "parent", "name", "dir", "ver"}
                              /\ rows[r].parent \in DOMAIN rows \cup {Root}
    /\ \A r, t \in DOMAIN rows : rows[r].remote = rows[t].remote => r = t

\* The users begin with two trees and a database.
ASSUME StartsAssumption ==
    /\ MaxId \in Nat
    /\ \A start \in Starts :
        /\ DOMAIN start.fs = Sides
        /\ \A s \in Sides : IsTree(start.fs[s])
        /\ AreRows(start.db)

Init ==
    /\ \E start \in Starts : fs = start.fs /\ db = start.db /\ kept = start.kept
    /\ tree = [s \in Sides |-> [i \in {Root} |-> RootNode]]
    /\ downward \in BOOLEAN /\ completed \in BOOLEAN
    /\ pc = "idle" /\ queue = {} /\ ops = <<>> /\ done = {} /\ orphans = {}
    /\ restart = FALSE /\ changed = TRUE /\ outcome = "applied"

-----------------------------------------------------------------------------
\* The steps before the executor. A cycle starts when a snapshot has changed or
\* the last one asked for it.
Detect ==
    /\ pc = "idle" /\ (restart \/ changed)
    /\ pc' = "find"
    /\ tree' = [s \in Sides |-> Detected(s)]
    /\ queue' = {} /\ ops' = <<>> /\ done' = {}
    /\ restart' = FALSE /\ changed' = FALSE
    /\ UNCHANGED <<fs, db, downward, orphans, completed, outcome, kept>>

Find ==
    /\ pc = "find"
    /\ queue' = FindConflicts(completed)
    /\ pc' = IF queue' = {} THEN "generate" ELSE "resolve"
    /\ UNCHANGED <<fs, db, tree, downward, ops, done, orphans, completed, restart, changed,
                   outcome, kept>>

Abort ==
    /\ pc' = "idle" /\ ops' = <<>> /\ done' = {} /\ queue' = {}
    /\ restart' = TRUE /\ outcome' = "failed"

\* The resolver, one conflict at a time. Orphans take the path they have for the
\* one they come from.
Resolve ==
    /\ pc = "resolve"
    /\ \E c \in Tops(queue) :
        IF Unsolvable(c, orphans)
        THEN Abort /\ UNCHANGED <<fs, db, tree, downward, orphans, completed, changed, kept>>
        ELSE LET found == IF c.type = "moveDelete" /\ ~LeftToTheParent(c, queue)
                          THEN Orphans(WithEvent(c, "delete")) ELSE {}
                 s == IF found = {} THEN Local ELSE WithEvent(c, "delete")[1]
             IN  /\ ops' = ops \o Solution(c, queue, orphans)
                 /\ queue' = IF GoesOn(c, queue) THEN queue \ {c} ELSE {}
                 /\ orphans' = orphans \cup
                        {<<r, s>> : r \in {r \in found : \A o \in orphans : o[1] # r}}
                 /\ tree' = [tree EXCEPT ![s] = [i \in DOMAIN @ |->
                        IF \E r \in found : SideId(s, r) = i
                        THEN [@[i] EXCEPT !.origin = Path(<<s, i>>)] ELSE @[i]]]
                 /\ pc' = IF queue' = {} THEN "sort" ELSE "resolve"
                 /\ restart' = TRUE
                 /\ UNCHANGED <<fs, db, downward, done, completed, changed, outcome, kept>>

GenerateAll ==
    /\ pc = "generate"
    /\ \E g \in {Generated} :
        IF g.failed
        THEN Abort /\ UNCHANGED <<fs, db, tree, downward, orphans, completed, changed, kept>>
        ELSE /\ ops' = g.ops /\ restart' = (restart \/ g.restart) /\ pc' = "sort"
             /\ UNCHANGED <<fs, db, tree, downward, queue, done, orphans, completed, changed,
                            outcome, kept>>

\* A list no pass leaves as it is would be sorted for ever.
Sort ==
    /\ pc = "sort" /\ SortingEnds(ops)
    /\ \E sorted \in {SortOperations(ops)} :
        ops' = sorted.ops /\ restart' = (restart \/ sorted.restart)
    /\ pc' = "execute"
    /\ UNCHANGED <<fs, db, tree, downward, queue, done, orphans, completed, changed, outcome, kept>>

-----------------------------------------------------------------------------
\* What an operation makes of the world w, a record of the file systems, the rows
\* and the trees. The nodes are those of the trees when it starts.
World == [fs |-> fs, db |-> db, tree |-> tree, outcome |-> "applied"]
Failed == [World EXCEPT !.outcome = "failed"]
Ignored == [World EXCEPT !.outcome = "ignored"]

OnDisk(path) == ItemAt(fs[Local], path)

\* UpdateTree::deleteNode.
Removed(t, i) ==
    LET gone == {i} \cup Under([k \in DOMAIN t \ {Root} |-> t[k]], i)
    IN  [k \in DOMAIN t |-> IF k \in gone THEN [t[k] EXCEPT !.in = FALSE] ELSE t[k]]
WithoutNode(w, n) == [w EXCEPT !.tree[n[1]] = Removed(@, n[2])]
RemovedBoth(w, n, m) == WithoutNode(WithoutNode(w, n), m)

\* A move the local disk refuses: the item is left out of the synchronization for an
\* hour, and what follows is not followed.
Blocked(op) == [RemovedBoth(World, op.node, op.other) EXCEPT !.outcome = "blocked"]

\* The folder of the target that corresponds to the parent of a node.
TargetParent(n) ==
    IF IsRoot(Parent(n)) THEN RootOf(OtherSide(n[1])) ELSE CorrespondingInOtherTree(Parent(n))

\* Mutant: the rows under a removed one stay.
WithoutThisRow(row) == [r \in DOMAIN db \ {row} |-> db[r]]

\* The rows under a removed one go with it.
WithoutRow(row) == Pruned(db, row)

UsedIds(s) == DOMAIN fs[s] \cup DOMAIN tree[s] \cup {SideId(s, r) : r \in DOMAIN db}
NewId(s) == Min(Ids \ UsedIds(s))

IdsLeft(s) == Ids \ UsedIds(s) # {}

\* Where a job puts an item in a folder of the target, by path on the local disk and by
\* id on the drive, or None when there is no such folder or the name is taken.
IsFolder(s, i) == i = Root \/ (i \in DOMAIN fs[s] /\ fs[s][i].dir)
Place(t, folder, name) ==
    LET parent == IF t = Local THEN OnDisk(Path(folder)) ELSE folder[2]
    IN  IF ~IsFolder(t, parent) THEN None
        ELSE IF \E i \in DOMAIN fs[t] : fs[t][i].parent = parent /\ fs[t][i].name = name
        THEN None ELSE parent

\* SyncDb::insertNode and its constraints: a row has both ids, which are unique on each
\* side, and its parent is a row. When they are not met the row that has the remote id is
\* removed, and the insertion tried again.
Insertable(rows, l, row) ==
    /\ {l, row.remote} \subseteq Ids /\ l \notin DOMAIN rows
    /\ \A r \in DOMAIN rows : rows[r].remote # row.remote
    /\ row.parent \in DOMAIN rows \cup {Root}
Inserted(w, l, row) ==
    LET rows == IF Insertable(db, l, row) THEN db ELSE WithoutRow(RowOf(Remote, row.remote))
    IN  IF Insertable(rows, l, row) THEN [w EXCEPT !.db = Put(rows, l, row)]
        ELSE [w EXCEPT !.db = rows, !.outcome = "failed"]

\* Node::setIdb.
Numbered(w, n, row) == [w EXCEPT !.tree[n[1]][n[2]].idb = row]

\* handleCreateOp and propagateCreateToDbAndTree. A file is uploaded from the path of
\* its node, and downloaded by its id.
Create(op) ==
    LET n == op.node
        t == op.target
        folder == TargetParent(n)
        source == IF t = Remote /\ ~op.omit THEN OnDisk(Path(n)) ELSE n[2]
        ver == IF Node(n).dir THEN 0 ELSE fs[n[1]][source].ver
        id == IF op.omit THEN op.other[2] ELSE NewId(t)
        row == IF t = Local THEN id ELSE n[2]
        parent == Place(t, folder, op.newName)
        born == [parent |-> folder[2], name |-> op.newName, dir |-> Node(n).dir, ev |-> {},
                 origin |-> <<>>, idb |-> row, in |-> TRUE]
        item == [parent |-> parent, name |-> op.newName, dir |-> Node(n).dir, ver |-> ver]
        known(w) == Inserted(w, row, [remote |-> IF t = Local THEN n[2] ELSE id,
                                      parent |-> Node(folder).idb, name |-> op.newName,
                                      dir |-> Node(n).dir, ver |-> ver])
        here == known(World)
        there == known([World EXCEPT !.fs[t] = Put(@, id, item)])
    IN  IF folder = NoNode
        THEN IF t = Remote /\ OnDisk(Path(n)) # None
             THEN WithoutNode(Ignored, n) ELSE Failed
        ELSE IF op.omit
        THEN IF here.outcome = "failed" THEN here
             ELSE Numbered(Numbered(here, n, row), <<t, id>>, row)
        ELSE IF t = Remote /\ source = None THEN Failed
        ELSE IF parent = None
        THEN IF t = Local /\ ~Node(n).dir /\ OnDisk(Append(Path(folder), op.newName)) # None
             THEN Ignored ELSE Failed
        ELSE IF ~Node(n).dir /\ source \notin DOMAIN fs[n[1]] THEN Blocked(op)
        ELSE IF there.outcome = "failed" THEN there
        ELSE [Numbered(there, n, row) EXCEPT !.tree[t] = Put(@, id, born)]

\* handleEditOp and propagateEditToDbAndTree. The file is read and written at the
\* path of the edited node on the local disk.
Edit(op) ==
    LET n == op.node
        m == op.other
        ver == fs[n[1]][n[2]].ver
        written == IF op.target = Local THEN OnDisk(Path(n)) ELSE m[2]
        row == Node(m).idb
    IN  IF row \notin DOMAIN db THEN Failed
        ELSE IF op.omit THEN [World EXCEPT !.db[row].ver = ver]
        ELSE IF OnDisk(Path(m)) = None THEN Ignored
        ELSE IF OnDisk(Path(n)) = None \/ written \notin DOMAIN fs[op.target] THEN Failed
        ELSE [World EXCEPT !.db[row].ver = ver, !.fs[op.target][written].ver = ver]

\* propagateMoveToDbAndTree.
MovedRow(w, op) ==
    LET m == IF op.other = NoNode THEN op.node ELSE op.other
        folder == IF op.newParent # NoNode THEN op.newParent
                  ELSE IF op.other = NoNode THEN Parent(m)
                  ELSE CorrespondingInOtherTree(Parent(op.node))
        row == Node(m).idb
        rows == [w EXCEPT !.db[row].parent = Node(folder).idb, !.db[row].name = op.newName]
    IN  IF row \notin DOMAIN db \/ folder = NoNode \/ Node(folder).idb \notin DOMAIN db \cup {Root}
        THEN [w EXCEPT !.outcome = "failed"]
        ELSE IF op.omit THEN rows
        ELSE [rows EXCEPT !.tree[m[1]][m[2]].parent = folder[2],
                          !.tree[m[1]][m[2]].name = op.newName]

\* propagateConflictToDbAndTree: what replaces the propagation of a solved conflict.
MovedInConflict(w, op) ==
    LET c == op.conflict
        row == RowOf(Local, LocalNode(c)[2])
        forgotten == RemovedBoth(w, LocalNode(c), RemoteNode(c))
    IN  CASE c.type \in RenameConflicts ->
                IF row = None THEN forgotten ELSE [forgotten EXCEPT !.db = WithoutRow(row)]
          [] c.type = "moveMoveSource" -> forgotten
          [] c.type = "editDelete"     -> w
          [] OTHER                     -> MovedRow(w, op)

\* propagateDeleteToDbAndTree.
DeletedRow(w, op) ==
    IF Node(op.node).idb \notin DOMAIN db THEN [w EXCEPT !.outcome = "failed"]
    ELSE [RemovedBoth(w, op.node, op.other) EXCEPT !.db = WithoutRow(Node(op.node).idb)]

\* handleForbiddenAction for a move the drive refuses: the item of the local replica
\* is deleted, and will be found as new at its old place on the drive.
Refused(op) ==
    LET item == OnDisk(Path(op.node))
        w == [World EXCEPT !.fs[Local] = IF item = None THEN @ ELSE Pruned(@, item),
                           !.outcome = "refused"]
    IN  IF Node(op.node).idb \notin DOMAIN db THEN w ELSE DeletedRow(w, op)

\* The folder and the name a move job puts its item at: the path of the folder in
\* the tree of the replica that changed, on the local disk; on the drive the id of
\* its counterpart, unless it is only a rename or a move that is undone.
Destination(op) ==
    LET m == IF op.other = NoNode THEN op.node ELSE op.other
        folder == IF op.newParent # NoNode THEN op.newParent ELSE Parent(op.node)
        renamed == Path(Parent(m)) = Path(folder)
        undone == op.conflict.type \in {"moveParentDelete", "moveMoveSource", "moveMoveCycle"}
        there == IF undone THEN folder ELSE CorrespondingInOtherTree(folder)
    IN  IF op.target = Local THEN OnDisk(Path(folder))
        ELSE IF renamed THEN fs[Remote][m[2]].parent
        ELSE there[2]

\* handleMoveOp and generateMoveJob.
Move(op) ==
    LET m == IF op.other = NoNode THEN op.node ELSE op.other
        folder == IF op.newParent # NoNode THEN op.newParent ELSE Parent(op.node)
        item == IF op.target = Local THEN OnDisk(Path(m)) ELSE m[2]
        to == Destination(op)
        taken == \E i \in DOMAIN fs[op.target] \ {item} :
                    fs[op.target][i].parent = to /\ fs[op.target][i].name = op.newName
        \* MoveJob::canRun: what moved on the local disk must still be there.
        unchecked == \/ op.target = Local \/ op.conflict # NoConflict
                     \/ Path(Parent(m)) = Path(folder)
                     \/ OnDisk(Append(Path(folder), op.newName)) # None
        moved == [World EXCEPT !.fs[op.target][item].parent = to,
                               !.fs[op.target][item].name = op.newName]
    IN  IF op.omit THEN IF op.conflict = NoConflict THEN MovedRow(World, op)
                        ELSE MovedInConflict(World, op)
        ELSE IF item \notin DOMAIN fs[op.target]
             THEN IF op.target = Local THEN Ignored ELSE Failed
        ELSE IF ~unchecked \/ ~IsFolder(op.target, to)
                \/ to \in {item} \cup Under(fs[op.target], item)
             THEN IF op.target = Local THEN Blocked(op) ELSE Failed
        ELSE IF taken THEN IF op.target = Local THEN Failed ELSE Refused(op)
        ELSE IF op.conflict = NoConflict THEN MovedRow(moved, op)
        ELSE MovedInConflict(moved, op)

\* handleDeleteOp and generateDeleteJob, with what the jobs check of the other
\* side: that the item is no more at that path on the drive, or no more the item at
\* that path on the local disk.
Delete(op) ==
    LET m == op.other
        item == IF op.target = Local THEN OnDisk(Path(m)) ELSE m[2]
        still == IF op.target = Local
                 THEN op.node[2] \in DOMAIN fs[Remote] /\ PathIn(fs[Remote], op.node[2]) = Path(m)
                 ELSE OnDisk(Path(m)) = op.node[2]
        deleted == [World EXCEPT !.fs[op.target] = Pruned(@, item)]
    IN  IF op.omit THEN DeletedRow(World, op)
        ELSE IF item \notin DOMAIN fs[op.target]
             THEN IF op.target = Local THEN Ignored ELSE Failed
        ELSE IF still THEN Failed
        ELSE IF op.conflict.type = "createParentDelete"
             THEN WithoutNode(deleted, op.node)
        ELSE DeletedRow(deleted, op)

-----------------------------------------------------------------------------
\* The executor takes the operations in their order. The transfers of files are
\* jobs that end later, after the one they wait for.
IsTransfer(op) == op.type \in {"create", "edit"} /\ ~op.omit /\ ~Node(op.node).dir
Ready(k) ==
    /\ \A j \in 1..(k - 1) : j \in done \/ IsTransfer(ops[j])
    /\ ops[k].after \in done \cup {0}

Effect(op) ==
    CASE op.type = "create" -> Create(op)
      [] op.type = "edit"   -> Edit(op)
      [] op.type = "move"   -> Move(op)
      [] op.type = "delete" -> Delete(op)
      [] OTHER              -> Failed

Execute ==
    /\ pc = "execute" /\ \A s \in Sides : IdsLeft(s)
    /\ \E k \in {j \in DOMAIN ops \ done : Ready(j)} : \E w \in {Effect(ops[k])} :
        /\ fs' = w.fs /\ db' = w.db /\ tree' = w.tree
        /\ changed' = (changed \/ w.fs # fs)
        /\ IF w.outcome = "failed" THEN Abort
           ELSE IF w.outcome = "blocked"
           THEN pc' = "blocked" /\ outcome' = w.outcome /\ UNCHANGED <<ops, done, queue, restart>>
           ELSE /\ done' = done \cup {k} /\ outcome' = w.outcome
                /\ restart' = (restart \/ w.outcome = "refused")
                /\ UNCHANGED <<pc, ops, queue>>
    /\ UNCHANGED <<downward, orphans, completed, kept>>

\* Mutant: the request for another cycle is cleared at the end of a cycle.
FinishForgetsRestart ==
    /\ pc = "execute" /\ done = DOMAIN ops
    /\ pc' = "idle" /\ ops' = <<>> /\ done' = {} /\ restart' = FALSE
    /\ completed' = (completed \/ ~restart)
    /\ UNCHANGED <<fs, db, tree, downward, queue, orphans, changed, outcome, kept>>

\* The end of a cycle.
Finish ==
    /\ pc = "execute" /\ done = DOMAIN ops
    /\ pc' = "idle" /\ ops' = <<>> /\ done' = {}
    /\ completed' = (completed \/ ~restart)
    /\ UNCHANGED <<fs, db, tree, downward, queue, orphans, restart, changed, outcome, kept>>

\* The cycles stop when nothing has changed, and at an item that is left out.
AtRest == pc = "idle" /\ ~restart /\ ~changed
Stopped == AtRest \/ pc = "blocked"
Rest == Stopped /\ UNCHANGED vars

Next ==
    \/ Detect \/ Find \/ Resolve \/ GenerateAll \/ Sort \/ Execute \/ Finish \/ Rest

\* Steps are taken until the cycles stop. This is the weak fairness of the actions
\* but Rest, one of which is enabled in any other state: there is no deadlock.
Fairness == []<>Stopped \/ []<><<Next>>_vars
Spec == Init /\ [][Next]_vars /\ Fairness

-----------------------------------------------------------------------------
InSync ==
    /\ \A s \in Sides : DOMAIN fs[s] = {SideId(s, r) : r \in DOMAIN db}
    /\ \A r \in DOMAIN db, s \in Sides :
        LET i == SideId(s, r)
        IN  /\ fs[s][i].parent = SideId(s, db[r].parent)
            /\ fs[s][i].name = db[r].name
            /\ fs[s][i].dir \/ fs[s][i].ver = db[r].ver

\* Types. Both replicas stay trees whatever is done to them, and what the constraints of
\* the database say of the rows stays true (IsTree and AreRows, before Init).
TypeOK ==
    /\ pc \in {"idle", "find", "resolve", "generate", "sort", "execute", "blocked"}
    /\ outcome \in Outcomes
    /\ {completed, restart, changed} \subseteq BOOLEAN
    /\ done \subseteq DOMAIN ops
    /\ \A s \in Sides : IsTree(fs[s])
    /\ AreRows(db)

\* The order of the sorter lets every operation be executed at its turn: none finds
\* its place taken, its folder missing, or its row gone (executorworker.cpp). An
\* operation may only find nothing to do.
OperationsApply == outcome \notin {"failed", "blocked", "refused"}

\* The two results of the sorter, the order and what each operation waits for, agree: no
\* operation waits for a later one, before which the executor would be stuck, nor for one
\* that a job ends later, so that a pause may put it back. The rules count on it that what
\* is put into a folder that is created is created, moved there or edited after its move
\* (operationsorterworker.cpp, ExecutorWorker::manageJobDependencies).
WaitsForEarlier ==
    /\ pc = "sort" => RulesCanCount(ops)
    /\ pc = "execute" => \A k \in DOMAIN ops :
            LET a == ops[k].after IN a < k /\ (a # 0 => ~IsTransfer(ops[a]))

\* What a user wrote, or both left alone, is still on a replica at any time of any
\* cycle: no resolution and no order of the operations overwrites or deletes it
\* (conflictresolverworker.cpp, operationsorterworker.cpp).
NothingIsLost ==
    \A v \in kept : \E s \in Sides : \E i \in DOMAIN fs[s] : fs[s][i].ver = v

\* The cycles end, with both replicas the same and as the database says: no conflict
\* is found again for ever, and no change is left unseen.
EventuallyInSync == <>[]InSync
=============================================================================
