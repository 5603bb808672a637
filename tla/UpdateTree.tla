----------------------------- MODULE UpdateTree -----------------------------
(***************************************************************************)
(* How the changes of one replica become its update tree. The operations   *)
(* are the differences between the snapshot and the database               *)
(* (computefsoperationworker.cpp); UpdateTreeWorker                        *)
(* (update_detector/updatetreeworker.cpp) applies them in eight steps to   *)
(* the nodes that the last cycle left, or to an empty tree. Nothing tells  *)
(* the order of the operations of one step. A folder on the way to an item *)
(* that has no node yet gets a temporary one, with an id of its own, until *)
(* an operation or the database tells which folder it is.                  *)
(*                                                                         *)
(* A node is a shared object: parents, children and the map of the ids all *)
(* point to it, and it changes its id while they do.                       *)
(***************************************************************************)
EXTENDS Paths

CONSTANTS
    Starts,         \* the items of the snapshot in the first cycle
    Changes(_, _),  \* those of the next cycle, after some rows and items
    Rows,           \* the rows of the database in the first cycle
    MaxCycles       \* bound on the cycles

VARIABLES
    side,
    downward,       \* the order in which the children of a node are walked
    items,          \* the snapshot: parent, name, kind and version of each item
    rows,           \* the database, with the same ids
    ops,            \* the operation set
    tree,           \* the objects, the map of the ids and the previous ids
    creates,        \* _createFileOperationSet
    step,           \* the step of the worker, or "idle" or "done"
    todo,           \* the operations that are left in this step
    queue,          \* the nodes that are left to update from the database
    cycles

vars == <<side, downward, items, rows, ops, tree, creates, step, todo, queue, cycles>>

\* The database, and what a cycle makes of an update tree.
R == INSTANCE Replicas WITH
        fs <- [s \in Sides |-> items],
        db <- [r \in DOMAIN rows |-> [remote |-> r, parent |-> rows[r].parent, name |-> rows[r].name,
                                      dir |-> rows[r].dir, ver |-> rows[r].ver]],
        tree <- [s \in Sides |-> <<>>]

ItemPath(i) == PathIn(items, i)

\* ComputeFSOperationWorker: exploreDbTree and exploreSnapshotTree.
FSOp(type, i, dir, path, destination) ==
    [type |-> type, id |-> i, dir |-> dir, path |-> path, destination |-> destination]
Operations ==
    LET known == DOMAIN rows \cap DOMAIN items
        moved(i) == rows[i].parent # items[i].parent \/ rows[i].name # items[i].name
    IN  {FSOp("delete", i, rows[i].dir, R!DbPath(i), <<>>) : i \in DOMAIN rows \ DOMAIN items}
        \cup {FSOp("edit", i, FALSE, ItemPath(i), <<>>) :
                i \in {i \in known : ~rows[i].dir /\ rows[i].ver # items[i].ver}}
        \cup {FSOp("move", i, rows[i].dir, R!DbPath(i), ItemPath(i)) : i \in {i \in known : moved(i)}}
        \cup {FSOp("create", i, items[i].dir, ItemPath(i), <<>>) : i \in DOMAIN items \ DOMAIN rows}

-----------------------------------------------------------------------------
\* Objects. The root is the object 0.
NewNode(id, idb, name, dir, ev, up, origin) ==
    [id |-> id, idb |-> idb, name |-> name, dir |-> dir, ev |-> ev, up |-> up, kids |-> <<>>,
     tmp |-> FALSE, prev |-> None, origin |-> origin, originParent |-> None]
EmptyTree ==
    [objs |-> (0 :> NewNode(Root, Root, 0, TRUE, {}, None, <<>>)), nodes |-> (Root :> 0),
     prevs |-> <<>>]

Known(t, id) == id \in DOMAIN t.nodes
Kids(t, u) == t.objs[u].kids
HasKid(t, u, id) == id \in DOMAIN Kids(t, u)

\* A new object, in no list of children yet.
NextObject(t) == Max(DOMAIN t.objs) + 1
Allocated(t, n) == [t EXCEPT !.objs = (NextObject(t) :> n) @@ @]
Named(t, id, u) == [t EXCEPT !.nodes = (id :> u) @@ @]

\* Node::insertChildren and deleteChildren, by the id the child has then.
Attached(t, u) ==
    [t EXCEPT !.objs[t.objs[u].up].kids = (t.objs[u].id :> u) @@ @]
Detached(t, u) ==
    [t EXCEPT !.objs[t.objs[u].up].kids = [i \in DOMAIN @ \ {t.objs[u].id} |-> @[i]]]

UpdateNodeId(t, u, id) ==
    LET apart == Detached(t, u) IN Attached([apart EXCEPT !.objs[u].id = id], u)

\* insertChangeEvent, setIsTmp(false).
WithEvent(t, u, event) ==
    [t EXCEPT !.objs[u].ev = @ \cup {event}, !.objs[u].tmp = FALSE]

\* The child of u by a name, or None.
KidNamed(t, u, name, onlyFolders) ==
    LET found == R!FirstOf({i \in DOMAIN Kids(t, u) :
                              LET n == t.objs[Kids(t, u)[i]]
                              IN  n.name = name /\ (onlyFolders => n.dir)})
    IN  IF found = None THEN None ELSE Kids(t, u)[found]

\* UpdateTree::getNodeByPath.
NodeByPath(t, path) ==
    FoldLeft(LAMBDA u, name : IF u = None THEN None ELSE KidNamed(t, u, name, FALSE), 0, path)

\* getOrCreateNodeFromPath. Temporary nodes have ids of their own.
TmpId(u) == -10 - u
GetOrCreate(t, path) ==
    FoldLeft(LAMBDA r, name :
                LET kid == KidNamed(r.tree, r.node, name, TRUE)
                    u == NextObject(r.tree)
                    n == [NewNode(TmpId(u), None, name, TRUE, {}, r.node, <<>>) EXCEPT !.tmp = TRUE]
                IN  IF kid # None THEN [r EXCEPT !.node = kid]
                    ELSE [tree |-> Attached(Allocated(r.tree, n), u), node |-> u],
             [tree |-> t, node |-> 0], path)

\* Mutant: the children of the temporary node keep it for their parent.
MergedOneWay(t, tmp, real) ==
    Attached(Detached([t EXCEPT !.objs[real].kids = Kids(t, tmp) @@ @], tmp), real)

\* mergingTempNodeToRealNode.
Merged(t, tmp, real) ==
    LET kids == Kids(t, tmp)
        moved == [t EXCEPT !.objs =
                    [u \in DOMAIN @ |->
                        IF u = real THEN [@[u] EXCEPT !.kids = kids @@ @]
                        ELSE IF \E i \in DOMAIN kids : kids[i] = u THEN [@[u] EXCEPT !.up = real]
                        ELSE @[u]]]
    IN  Attached(Detached(moved, tmp), real)

-----------------------------------------------------------------------------
\* Steps 1 and 2: createMoveNodes.
MoveNode(t, op) ==
    LET cur == t.nodes[op.id]
        there == NodeByPath(t, op.destination)
        merged == IF there # None /\ t.objs[there].tmp THEN Merged(t, there, cur) ELSE t
        r == GetOrCreate(merged, Front(op.destination))
        noted == [WithEvent(r.tree, cur, "move") EXCEPT
                    !.objs[cur].originParent = r.tree.objs[r.tree.objs[cur].up].idb]
    IN  Attached([Detached(noted, cur) EXCEPT !.objs[cur].name = Last(op.destination),
                                              !.objs[cur].up = r.node,
                                              !.objs[cur].origin = op.path], cur)
NewMovedNode(t, op) ==
    LET r == GetOrCreate(t, Front(op.destination))
        u == NextObject(r.tree)
        name == Last(op.destination)
        new == Named(Allocated(r.tree, NewNode(op.id, op.id, name, op.dir, {"move"}, r.node, op.path)),
                     op.id, u)
        there == R!FirstOf({i \in DOMAIN Kids(new, r.node) :
                              LET n == new.objs[Kids(new, r.node)[i]] IN n.tmp /\ n.name = name})
    IN  Attached(IF there = None THEN new ELSE Merged(new, Kids(new, r.node)[there], u), u)

\* Mutant: the folder is looked for at its old path only.
ParentAtOldPath(t, path) == None

\* The folder that has the row of a path, or None; the path when the folders on the
\* way to it have moved (getNewPathAfterMove).
ParentByRow(t, path) ==
    LET row == R!RowAt(Front(path))
    IN  IF row # None /\ Known(t, row) THEN t.nodes[row] ELSE None
PathAfterMove(path) ==
    FoldLeft(LAMBDA new, k :
                LET move == {op \in ops : op.type = "move" /\ op.id = R!RowAt(SubSeq(path, 1, k))}
                IN  IF move = {} THEN Append(new, path[k])
                    ELSE (CHOOSE op \in move : TRUE).destination,
             <<>>, [k \in 1..Len(path) |-> k])

\* Step 3: step3DeleteDirectory.
DeleteFolder(t, op) ==
    LET known == ParentByRow(t, op.path)
        r == IF known # None THEN [tree |-> t, node |-> known]
             ELSE GetOrCreate(t, Front(PathAfterMove(op.path)))
        u == NextObject(r.tree)
        kid == Kids(r.tree, r.node)[op.id]
    IN  IF Known(t, op.id) THEN WithEvent(t, t.nodes[op.id], "delete")
        ELSE IF HasKid(r.tree, r.node, op.id)
        THEN Named([WithEvent(r.tree, kid, "delete") EXCEPT !.objs[kid].idb = op.id], op.id, kid)
        ELSE Named(Attached(Allocated(r.tree,
                        NewNode(op.id, op.id, Last(op.path), TRUE, {"delete"}, r.node, <<>>)), u), op.id, u)

\* Step 4: step4DeleteFile. On the local side a file deleted and created again at
\* the same path was edited: op is then the creation.
Rewritten(t, u, old, new) ==
    [t EXCEPT !.objs[u].prev = old, !.prevs = (old :> new) @@ @]
DeleteFile(t, id, op) ==
    LET edited == op.type = "create"
        event == IF edited THEN "edit" ELSE "delete"
        known == ParentByRow(t, op.path)
        r == IF known # None THEN [tree |-> t, node |-> known] ELSE GetOrCreate(t, Front(op.path))
        u == IF Known(t, id) THEN t.nodes[id] ELSE NextObject(r.tree)
        updated == WithEvent(UpdateNodeId(t, u, op.id), u, event)
        rekeyed == [updated EXCEPT !.nodes = [i \in DOMAIN @ \ {id} |-> @[i]]]
        added == Attached(Allocated(r.tree,
                    NewNode(op.id, id, Last(op.path), FALSE, {event}, r.node, <<>>)), u)
    IN  IF ~Known(t, id)
        THEN Named(IF edited THEN Rewritten(added, u, id, op.id) ELSE added, op.id, u)
        ELSE IF edited THEN Named(Rewritten(rekeyed, u, id, op.id), op.id, u)
        ELSE updated

\* Step 5: step5CreateDirectory.
CreateFolder(t, op) ==
    LET r == GetOrCreate(t, op.path)
        n == r.tree.objs[r.node]
        replaced == IF "delete" \in n.ev THEN [r.tree EXCEPT !.objs[r.node].prev = n.id] ELSE r.tree
    IN  Named(WithEvent(UpdateNodeId(replaced, r.node, op.id), r.node, "create"), op.id, r.node)

\* Steps 6 and 7: step6CreateFile, step7EditFile.
CreateFile(t, op) ==
    LET r == GetOrCreate(t, Front(op.path))
        u == NextObject(r.tree)
        kid == Kids(r.tree, r.node)[op.id]
    IN  IF HasKid(r.tree, r.node, op.id) /\ r.tree.objs[kid].name = Last(op.path)
        THEN Named(WithEvent(r.tree, kid, "create"), op.id, kid)
        ELSE Named(Attached(Allocated(r.tree,
                NewNode(op.id, None, Last(op.path), FALSE, {"create"}, r.node, <<>>)), u), op.id, u)
EditFile(t, op) ==
    LET r == GetOrCreate(t, Front(op.path))
        u == NextObject(r.tree)
        kid == Kids(r.tree, r.node)[op.id]
    IN  IF HasKid(r.tree, r.node, op.id)
        THEN Named(WithEvent(r.tree, kid, "edit"), op.id, kid)
        ELSE Named(Attached(Allocated(r.tree,
                NewNode(op.id, op.id, Last(op.path), FALSE, {"edit"}, r.node, <<>>)), u), op.id, u)

-----------------------------------------------------------------------------
\* Step 8. getOriginPath: the names up to the first ancestor that was moved.
OriginPath(t, u) ==
    LET climb[v \in DOMAIN t.objs] ==
            LET n == t.objs[v]
            IN  IF n.up = None THEN <<>>
                ELSE IF n.originParent # None /\ n.origin # <<>>
                THEN IF n.originParent \notin DOMAIN rows \cup {Root} THEN <<None>>
                     ELSE Append(R!DbPath(n.originParent), Last(n.origin))
                ELSE Append(climb[n.up], n.name)
    IN  climb[u]

\* updateTmpNode: the temporary node becomes the folder the database has at its
\* path, and takes over what another node of this id has.
TmpUpdated(t, u) ==
    LET row == R!RowAt(OriginPath(t, u))
        own == [UpdateNodeId(t, u, row) EXCEPT !.objs[u].idb = row, !.objs[u].tmp = FALSE]
        other == own.nodes[row]
        kids == Kids(own, other)
        merged == [own EXCEPT !.objs =
                    [v \in DOMAIN @ |->
                        IF v = u THEN [@[v] EXCEPT !.kids = kids @@ @, !.ev = own.objs[other].ev]
                        ELSE IF \E i \in DOMAIN kids : kids[i] = v THEN [@[v] EXCEPT !.up = u]
                        ELSE @[v]]]
    IN  IF row = None THEN t
        ELSE Named(IF Known(own, row) THEN merged ELSE own, row, u)

\* updateNodeWithDb, for one node.
UsableId(n) == IF "edit" \in n.ev /\ n.prev # None THEN n.prev ELSE n.id
UpdatedWithDb(t, u) ==
    LET n == t.objs[u]
        row == UsableId(n)
        placed == IF "move" \in n.ev
                  THEN [t EXCEPT !.objs[u].originParent = rows[row].parent,
                                 !.objs[u].origin = R!DbPath(n.idb)]
                  ELSE t
    IN  IF n.idb = None THEN [placed EXCEPT !.objs[u].idb = row] ELSE placed

\* The rows that have no node, a parent before its children (SyncDb::ids), and their
\* nodes.
IdOfRow(t, row) == IF row \in DOMAIN t.prevs THEN t.prevs[row] ELSE row
Missing(t) == {row \in DOMAIN rows : ~Known(t, IdOfRow(t, row))}
MissingAdded(t) ==
    LET depth(row) == Len(R!DbPath(row))
        add(tr, row) ==
            LET u == NextObject(tr)
                n == NewNode(IdOfRow(tr, row), row, rows[row].name, rows[row].dir, {},
                             tr.nodes[rows[row].parent], <<>>)
            IN  Named(Attached(Allocated(tr, n), u), n.id, u)
    IN  FoldLeft(add, t, SetToSortSeq(Missing(t), LAMBDA a, b : depth(a) < depth(b)))

-----------------------------------------------------------------------------
Init ==
    /\ side \in Sides /\ downward \in BOOLEAN
    /\ items \in Starts /\ rows = Rows
    /\ ops = {} /\ tree = EmptyTree /\ creates = {}
    /\ step = "idle" /\ todo = {} /\ queue = <<>> /\ cycles = 1

FolderOps(type) == {op \in ops : op.type = type /\ op.dir}
FileOps(type) == {op \in ops : op.type = type /\ ~op.dir}

\* The operations are computed, and the nodes the last cycle left forget what it did.
Begin ==
    /\ step = "idle"
    /\ ops' = Operations
    /\ tree' = [tree EXCEPT !.prevs = <<>>,
                            !.objs = [u \in DOMAIN @ |-> [@[u] EXCEPT !.ev = {}, !.prev = None]]]
    /\ step' = "moveFolders" /\ todo' = {op \in Operations : op.type = "move" /\ op.dir}
    /\ creates' = {}
    /\ UNCHANGED <<side, downward, items, rows, queue, cycles>>

Twins == {i \in DOMAIN items : \E j \in DOMAIN items : i # j /\ ItemPath(i) = ItemPath(j)}

\* Mutant: the objects are reset, and the snapshot is kept.
FailKeepsTheSnapshot ==
    /\ step' = "idle" /\ tree' = EmptyTree /\ ops' = {} /\ todo' = {} /\ creates' = {} /\ queue' = <<>>
    /\ UNCHANGED <<side, downward, items, rows, cycles>>

\* The worker fails, the shared objects are reset and the snapshot is made again, which
\* has one item at each path.
Fail ==
    /\ step' = "idle" /\ tree' = EmptyTree /\ ops' = {} /\ todo' = {} /\ creates' = {} /\ queue' = <<>>
    /\ IF Twins = {} THEN items' = items
       ELSE \E i \in Twins : items' = Pruned(items, i)
    /\ UNCHANGED <<side, downward, rows, cycles>>

\* One operation of a step, and the end of a step.
Applied(op, t) ==
    /\ tree' = t /\ todo' = todo \ {op}
    /\ UNCHANGED <<side, downward, items, rows, ops, step, queue, cycles>>
Turn(from, to, operations) ==
    /\ step = from /\ todo = {}
    /\ step' = to /\ todo' = operations
    /\ UNCHANGED <<side, downward, items, rows, ops, tree, queue, cycles>>

\* step1MoveDirectory, step2MoveFile.
Move ==
    /\ step \in {"moveFolders", "moveFiles"}
    /\ \E op \in todo :
        IF Known(tree, op.id)
        THEN LET u == tree.nodes[op.id]
             IN  IF HasKid(tree, tree.objs[u].up, op.id)
                 THEN Applied(op, MoveNode(tree, op)) /\ UNCHANGED creates
                 ELSE Fail
        ELSE Applied(op, NewMovedNode(tree, op)) /\ UNCHANGED creates
MoveFiles == Turn("moveFolders", "moveFiles", FileOps("move")) /\ UNCHANGED creates
DeleteFolders == Turn("moveFiles", "deleteFolders", FolderOps("delete")) /\ UNCHANGED creates

DeleteDirectory ==
    /\ step = "deleteFolders"
    /\ \E op \in todo : Applied(op, DeleteFolder(tree, op))
    /\ UNCHANGED creates

\* handleCreateOperationsWithSamePath: two creations at a path of items of one kind.
SamePath(a, b) == a # b /\ a.dir = b.dir /\ a.path = b.path
CheckCreates ==
    /\ step = "deleteFolders" /\ todo = {}
    /\ IF \E a, b \in FolderOps("create") \cup FileOps("create") : SamePath(a, b) THEN Fail
       ELSE /\ Turn("deleteFolders", "deleteFiles", FileOps("delete"))
            /\ creates' = FileOps("create")

DeleteOneFile ==
    /\ step = "deleteFiles"
    /\ \E op \in todo :
        LET again == {c \in creates : side = Local /\ c.path = op.path}
        IN  /\ creates' = creates \ again
            /\ Applied(op, DeleteFile(tree, op.id, IF again = {} THEN op ELSE CHOOSE c \in again : TRUE))
CreateFolders == Turn("deleteFiles", "createFolders", FolderOps("create")) /\ UNCHANGED creates

CreateDirectory ==
    /\ step = "createFolders"
    /\ \E op \in todo : Applied(op, CreateFolder(tree, op))
    /\ UNCHANGED creates
CreateFiles == Turn("createFolders", "createFiles", creates) /\ UNCHANGED creates

CreateOneFile ==
    /\ step = "createFiles"
    /\ \E op \in todo : Applied(op, CreateFile(tree, op))
    /\ UNCHANGED creates
EditFiles == Turn("createFiles", "editFiles", FileOps("edit")) /\ UNCHANGED creates

EditOneFile ==
    /\ step = "editFiles"
    /\ \E op \in todo : Applied(op, EditFile(tree, op))
    /\ UNCHANGED creates

\* step8CompleteUpdateTree: first every node, from the root down but not under a
\* created one, then the rows without a node.
Complete ==
    /\ step = "editFiles" /\ todo = {}
    /\ step' = "nodes" /\ queue' = <<0>>
    /\ UNCHANGED <<side, downward, items, rows, ops, tree, creates, todo, cycles>>

UpdateNode ==
    /\ step = "nodes" /\ queue # <<>>
    /\ LET u == Head(queue)
           known == IF tree.objs[u].tmp THEN TmpUpdated(tree, u) ELSE tree
           kids == LET order == R!InOrder(DOMAIN Kids(known, u))
                   IN  [k \in DOMAIN order |-> Kids(known, u)[order[k]]]
       IN  IF "create" \in tree.objs[u].ev
           THEN /\ queue' = Tail(queue)
                /\ UNCHANGED <<side, downward, items, rows, ops, tree, creates, step, todo, cycles>>
           ELSE IF UsableId(known.objs[u]) \notin DOMAIN rows \cup {Root} THEN Fail
           ELSE /\ tree' = UpdatedWithDb(known, u)
                /\ queue' = Tail(queue) \o kids
                /\ UNCHANGED <<side, downward, items, rows, ops, creates, step, todo, cycles>>

AddMissing ==
    /\ step = "nodes" /\ queue = <<>>
    /\ tree' = MissingAdded(tree)
    /\ step' = "done" /\ ops' = {}
    /\ UNCHANGED <<side, downward, items, rows, creates, todo, queue, cycles>>

\* The rest of the cycle, and the next one. Either everything was propagated, or
\* nothing: the cycle solved a conflict, or its operations failed. The objects are
\* numbered by their ids here.
AllNodes(t) == {t.nodes[i] : i \in DOMAIN t.nodes}
Renumbered(t) ==
    LET id(u) == t.objs[u].id
        with(i) == CHOOSE u \in AllNodes(t) : id(u) = i
    IN  [t EXCEPT !.nodes = [i \in DOMAIN @ |-> id(@[i])],
                  !.objs = [i \in {id(u) : u \in AllNodes(t)} |->
                              [t.objs[with(i)] EXCEPT !.up = IF @ = None THEN None ELSE id(@),
                                                      !.kids = [k \in DOMAIN @ |-> k]]]]

\* Mutant: a node that was deleted stays among the children of its parent.
PropagatedInTheMap(t) ==
    LET gone == {i \in DOMAIN t.objs : "delete" \in t.objs[i].ev}
    IN  [t EXCEPT !.nodes = [i \in DOMAIN @ \ gone |-> @[i]],
                  !.objs = [i \in DOMAIN @ \ gone |-> [@[i] EXCEPT !.idb = i]]]

Propagated(t) ==
    LET gone == {i \in DOMAIN t.objs : "delete" \in t.objs[i].ev}
    IN  [t EXCEPT !.nodes = [i \in DOMAIN @ \ gone |-> @[i]],
                  !.objs = [i \in DOMAIN @ \ gone |->
                              [@[i] EXCEPT !.idb = i, !.kids = [k \in DOMAIN @ \ gone |-> k]]]]
NextCycle ==
    /\ step = "done" /\ cycles < MaxCycles
    /\ \E propagated \in BOOLEAN :
        /\ rows' = IF propagated THEN items ELSE rows
        /\ tree' = IF propagated THEN Propagated(Renumbered(tree)) ELSE Renumbered(tree)
    /\ items' \in Changes(rows', items)
    /\ step' = "idle" /\ creates' = {} /\ cycles' = cycles + 1
    /\ UNCHANGED <<side, downward, ops, todo, queue>>

Stopped == step = "done" /\ cycles = MaxCycles
Rest == Stopped /\ UNCHANGED vars

Next ==
    \/ Begin \/ Move \/ MoveFiles \/ DeleteFolders \/ DeleteDirectory \/ CheckCreates
    \/ DeleteOneFile \/ CreateFolders \/ CreateDirectory \/ CreateFiles \/ CreateOneFile
    \/ EditFiles \/ EditOneFile \/ Complete \/ UpdateNode \/ AddMissing \/ NextCycle \/ Rest

\* The workers go on until the last cycle: the weak fairness of the actions but Rest,
\* one of which is enabled in any other state.
Fairness == []<>Stopped \/ []<><<Next>>_vars
Spec == Init /\ [][Next]_vars /\ Fairness

-----------------------------------------------------------------------------
\* What the tree of a cycle is: that of Replicas, where an item created at the path of
\* a deleted one is one node with it: a folder, and on the local side a file.
Detected ==
    LET d == R!Detected(side)
        path(i) == PathIn([k \in DOMAIN d \ {Root} |-> d[k]], i)
        replaces(new, old) ==
            /\ d[new].ev = {"create"} /\ "delete" \in d[old].ev
            /\ d[new].dir = d[old].dir
            /\ d[new].dir \/ side = Local
            /\ path(new) = path(old)
        replaced == {i \in DOMAIN d : \E j \in DOMAIN d : replaces(j, i)}
        now(i) == IF i \in replaced THEN CHOOSE j \in DOMAIN d : replaces(j, i) ELSE i
        before(i) == IF \E j \in replaced : now(j) = i THEN CHOOSE j \in replaced : now(j) = i ELSE None
    IN  [i \in DOMAIN d \ (replaced \cup {Root}) |->
            [parent |-> now(d[i].parent), name |-> d[i].name, dir |-> d[i].dir,
             ev |-> IF before(i) = None THEN d[i].ev ELSE IF d[i].dir THEN {"create", "delete"} ELSE {"edit"},
             idb |-> IF before(i) = None THEN d[i].idb ELSE before(i),
             prev |-> before(i),
             origin |-> d[i].origin]]
TreeOfNodes ==
    LET node(i) == tree.objs[CHOOSE u \in AllNodes(tree) : tree.objs[u].id = i]
    IN  [i \in {tree.objs[u].id : u \in AllNodes(tree)} \ {Root} |->
            [parent |-> tree.objs[node(i).up].id, name |-> node(i).name, dir |-> node(i).dir,
             ev |-> node(i).ev, idb |-> node(i).idb, prev |-> node(i).prev,
             origin |-> IF "move" \in node(i).ev THEN node(i).origin ELSE <<>>]]

\* Every object keeps to its type: the parents and the children of an object are
\* objects, and so is every node of the map (node.h, updatetree.h).
TypeOK ==
    /\ side \in Sides /\ downward \in BOOLEAN /\ cycles \in 1..MaxCycles
    /\ \A u \in DOMAIN tree.objs :
        /\ tree.objs[u].ev \subseteq Events
        /\ tree.objs[u].up \in DOMAIN tree.objs \cup {None}
        /\ \A i \in DOMAIN Kids(tree, u) : Kids(tree, u)[i] \in DOMAIN tree.objs
    /\ AllNodes(tree) \subseteq DOMAIN tree.objs

\* When a cycle has its tree, each node is in the list of its parent under the id it
\* has then, and each child in a list is a node of the map that knows its parent: no
\* node changed its id, or was merged into another one, behind the lists and the map.
NodesAreTheTree ==
    step = "done" =>
        \A u \in AllNodes(tree) :
            /\ u # 0 => LET up == tree.objs[u].up
                        IN  /\ up \in AllNodes(tree)
                            /\ HasKid(tree, up, tree.objs[u].id) /\ Kids(tree, up)[tree.objs[u].id] = u
            /\ \A i \in DOMAIN Kids(tree, u) : LET k == Kids(tree, u)[i]
                                               IN  k \in AllNodes(tree) /\ tree.objs[k].up = u

\* The tree says what happened since the last cycle, whatever the order of the
\* operations was and whatever the nodes of the last cycle were: each item is one node
\* with its place, its row and its events, and no temporary one is left. It is the tree
\* that the reconciliation starts from.
TreeIsTheSnapshot == step = "done" => TreeOfNodes = Detected

\* A cycle in which the worker failed, for two items at one path or a node it does not
\* find again, is followed by one that makes its tree.
EveryTreeIsMade == []<>(step = "done")
=============================================================================
