--------------------------- MODULE ConflictFinder ---------------------------
(***************************************************************************)
(* The conflicts between the changes of the two replicas                   *)
(* (conflict_finder/conflictfinderworker.cpp) and the order in which they  *)
(* are solved (conflict_finder/conflict.cpp). A conflict has the node the  *)
(* search met, the node of the other tree it collides with, and a type.    *)
(***************************************************************************)
EXTENDS Replicas

\* The types, in the order of their priority.
ConflictTypes == <<"moveParentDelete", "moveDelete", "createParentDelete", "moveMoveSource",
                   "moveMoveDest", "moveCreate", "editDelete", "createCreate", "editEdit",
                   "moveMoveCycle">>
NoConflict == [type |-> "none", node |-> NoNode, other |-> NoNode]
Conflict(type, n, m) == [type |-> type, node |-> n, other |-> m]

LocalNode(c) == IF c.node[1] = Local THEN c.node ELSE c.other
RemoteNode(c) == IF c.node[1] = Local THEN c.other ELSE c.node
WithEvent(c, event) == IF Has(c.node, event) THEN c.node ELSE c.other

\* The node of the other tree that n collides with in n's parent there.
Namesake(n, parent) == IF parent = NoNode THEN NoNode ELSE ChildExcept(parent, Node(n).name)
Exists(m) == m[2] # None

\* What each check finds for the node n it is called with. completed is
\* _syncHasFullyCompleted: the trees are then those of a database in sync.
CreateCreate(n, completed) ==
    LET m == Namesake(n, IF completed THEN CorrespondingDirect(Parent(n))
                                      ELSE CorrespondingInOtherTree(Parent(n)))
    IN  IF Has(n, "create") /\ Exists(m) /\ Has(m, "create") /\ ~IsPseudoConflict(n, m)
        THEN {Conflict("createCreate", n, m)} ELSE {}

EditEdit(n) ==
    LET m == CorrespondingDirect(n)
    IN  IF Has(n, "edit") /\ Exists(m) /\ Has(m, "edit") /\ ~IsPseudoConflict(n, m)
        THEN {Conflict("editEdit", n, m)} ELSE {}

MoveCreate(n) ==
    LET m == Namesake(n, CorrespondingDirect(Parent(n)))
    IN  IF Has(n, "move") /\ Exists(m) /\ Has(m, "create")
        THEN {Conflict("moveCreate", n, m)} ELSE {}

\* Mutant: the edits of the remote replica are not looked for.
LocalEditDelete(n) ==
    LET m == CorrespondingDirect(n)
    IN  IF Has(n, "delete") /\ n[1] = Local /\ ~Node(n).dir /\ Exists(m) /\ Has(m, "edit")
        THEN {Conflict("editDelete", n, m)} ELSE {}

EditDelete(n) ==
    LET m == CorrespondingDirect(n)
    IN  IF Has(n, "delete") /\ ~Node(n).dir /\ Exists(m) /\ Has(m, "edit")
        THEN {Conflict("editDelete", n, m)} ELSE {}

MoveDelete(n) ==
    LET m == CorrespondingDirect(n)
    IN  IF Has(n, "delete") /\ Exists(m) /\ Has(m, "move")
        THEN {Conflict("moveDelete", n, m)} ELSE {}

\* What happened under a folder that is deleted on the other side.
ParentDelete(n, event, type) ==
    LET m == CorrespondingDirect(n)
    IN  IF Has(n, "delete") /\ Node(n).dir /\ Exists(m) /\ ~Has(m, "delete")
        THEN {Conflict(type, n, k) : k \in {k \in SubNodes(m) : Has(k, event)}} ELSE {}

MoveMoveSource(n) ==
    LET m == CorrespondingDirect(n)
    IN  IF Has(n, "move") /\ Exists(m) /\ Has(m, "move") /\ ~IsPseudoConflict(n, m)
        THEN {Conflict("moveMoveSource", n, m)} ELSE {}

MoveMoveDest(n) ==
    LET m == Namesake(n, CorrespondingDirect(Parent(n)))
    IN  IF Has(n, "move") /\ Exists(m) /\ Has(m, "move") /\ Node(m).idb # Node(n).idb
        THEN {Conflict("moveMoveDest", n, m)} ELSE {}

\* determineMoveMoveCycleConflicts: two folders, each moved into the other.
MoveMoveCycle(n, m) ==
    LET a == DbPath(Node(n).idb)
        b == DbPath(Node(m).idb)
        nThere == CorrespondingDirect(n)
        mHere == CorrespondingDirect(m)
    IN  /\ Node(n).idb # Node(m).idb
        /\ ~StartsWith(a, b) /\ ~StartsWith(b, a)
        /\ Exists(mHere) /\ Exists(nThere)
        /\ IsBelow(n, mHere) /\ IsBelow(m, nThere)

\* The search goes through both trees level by level, the local one first, and
\* does not report again a pair it has already considered.
Earlier(n, m) ==
    \/ Len(Path(n)) < Len(Path(m))
    \/ Len(Path(n)) = Len(Path(m)) /\ n[1] = Local
Once(found) ==
    {c \in found : Conflict(c.type, c.other, c.node) \in found => Earlier(c.node, c.other)}

\* findConflicts.
FindConflicts(completed) ==
    LET nodes == {n \in Nodes : ~IsRoot(n)}
        all(Check(_)) == UNION {Check(n) : n \in nodes}
        moved(s) == {n \in nodes : n[1] = s /\ Node(n).dir /\ Has(n, "move")}
    IN  UNION {Once(all(LAMBDA n : CreateCreate(n, completed))), Once(all(EditEdit)),
               all(LAMBDA n : ParentDelete(n, "move", "moveParentDelete")),
               all(LAMBDA n : ParentDelete(n, "create", "createParentDelete")),
               all(MoveDelete), all(EditDelete), all(MoveCreate),
               Once(all(MoveMoveDest)), Once(all(MoveMoveSource)),
               {Conflict("moveMoveCycle", p[1], p[2]) :
                    p \in {p \in moved(Local) \X moved(Remote) : MoveMoveCycle(p[1], p[2])}}}

-----------------------------------------------------------------------------
\* ConflictCmp::pathOfEvent: the path of the first node when the side with the
\* event is the local one, of the second one when it is the remote one.
PathOfEvent(c, event) == Path(IF WithEvent(c, event)[1] = Local THEN c.node ELSE c.other)

\* The path by which conflicts of one type are ordered. (Both nodes of moveMoveSource
\* have the path of their row for origin.)
SolvedBy(c) ==
    CASE c.type \in {"moveParentDelete", "createParentDelete", "moveDelete", "editDelete"}
            -> PathOfEvent(c, "delete")
      [] c.type = "moveMoveSource" -> Node(c.node).origin
      [] c.type = "moveCreate"     -> PathOfEvent(c, "create")
      [] OTHER                     -> Path(LocalNode(c))

\* ConflictCmp: by type, then the shortest path, then the names.
Rank(c) == CHOOSE k \in 1..Len(ConflictTypes) : ConflictTypes[k] = c.type
PathLess(p, q) ==
    \/ Len(p) < Len(q)
    \/ /\ Len(p) = Len(q)
       /\ \E k \in 1..Len(p) : p[k] < q[k] /\ SubSeq(p, 1, k - 1) = SubSeq(q, 1, k - 1)
SolvedBefore(c, d) ==
    \/ Rank(c) < Rank(d)
    \/ Rank(c) = Rank(d) /\ PathLess(SolvedBy(c), SolvedBy(d))

\* The conflicts that may be at the top of the queue.
Tops(queue) == {c \in queue : \A d \in queue : ~SolvedBefore(d, c)}
=============================================================================
