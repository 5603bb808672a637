-------------------------- MODULE ConflictResolver --------------------------
(***************************************************************************)
(* The operations that solve a conflict                                    *)
(* (conflict_resolver/conflictresolverworker.cpp). Most of them only       *)
(* prepare the next cycle: they rename or move back an item of one replica,*)
(* or remove a row of the database so that the item is found as new.       *)
(***************************************************************************)
EXTENDS ConflictFinder

\* A SyncOperation. node is the affected node, other the corresponding one.
Operation(type, node, other, target) ==
    [type |-> type, node |-> node, other |-> other, target |-> target, omit |-> FALSE,
     newName |-> 0, newParent |-> NoNode, conflict |-> NoConflict, after |-> 0]

RootOf(s) == <<s, Root>>

\* A name nothing has: a conflicted or an orphan name ends in a random string.
FirstSpare == 100
NewName ==
    LET used == UNION ({{fs[s][i].name : i \in DOMAIN fs[s]} : s \in Sides}
                       \cup {{tree[s][i].name : i \in DOMAIN tree[s]} : s \in Sides})
                \cup {db[r].name : r \in DOMAIN db}
    IN  Min({n \in FirstSpare..(FirstSpare + Cardinality(used)) : n \notin used})

RenameConflicts == {"createCreate", "editEdit", "moveCreate", "moveMoveDest"}

\* The local file gets a conflicted name; its row will be removed.
RenameLocal(c, name) ==
    [Operation("move", RemoteNode(c), LocalNode(c), Local)
        EXCEPT !.newName = name, !.conflict = c]

\* An operation on the database only.
DropRow(c, node, other) ==
    [Operation("delete", node, other, other[1]) EXCEPT !.omit = TRUE, !.conflict = c]

\* The edited file survives: its row goes, and when its folder goes too it is
\* first moved to the root.
SolveEditDelete(c, name) ==
    LET deleted == WithEvent(c, "delete")
        edited == WithEvent(c, "edit")
    IN  IF Has(Parent(deleted), "delete")
        THEN <<[Operation("move", deleted, edited, edited[1]) EXCEPT
                    !.newName = name, !.newParent = RootOf(deleted[1]), !.conflict = c],
               DropRow(c, deleted, edited)>>
        ELSE <<DropRow(c, edited, deleted)>>

\* The rows under a deleted folder whose nodes are not under it any more.
Orphans(deleted) ==
    LET row == RowOf(deleted[1], deleted[2])
    IN  IF ~Node(deleted).dir THEN {}
        ELSE Under(db, row) \ {Node(k).idb : k \in SubNodes(deleted)}

\* The row of an orphan goes to the root under a new name; the orphan is then in
\* conflict with itself in the next cycle.
MoveOrphan(c, row, name) ==
    LET s == WithEvent(c, "delete")[1]
        orphan == <<s, SideId(s, row)>>
        there == CorrespondingInOtherTree(orphan)
    IN  [Operation("move", orphan, there, there[1]) EXCEPT
            !.omit = TRUE, !.newName = name, !.newParent = RootOf(s), !.conflict = c]

\* The moved item survives: the rows of the deleted one go.
SolveMoveDelete(c, name) ==
    LET deleted == WithEvent(c, "delete")
        orphans == InOrder(Orphans(deleted))
    IN  [k \in 1..Len(orphans) |-> MoveOrphan(c, orphans[k], name + k - 1)]
        \o <<DropRow(c, deleted, WithEvent(c, "move"))>>

\* A move-delete conflict under a folder that is deleted on the other side is left
\* to the move-parent-delete one.
LeftToTheParent(c, queue) ==
    LET parent == CorrespondingDirect(Parent(WithEvent(c, "move")))
    IN  /\ c.type = "moveDelete"
        /\ Exists(parent) /\ Has(parent, "delete")
        /\ \E d \in queue : d.type = "moveParentDelete"

\* undoMove: back to where the node was, or to the root under a new name when that
\* place is below the node, deleted, or taken by a node that came since.
UndoMove(c, moved, name) ==
    LET origin == Node(moved).origin
        parent == NodeAt(moved[1], Front(origin))
        holder == ChildExcept(parent, Last(origin))
        impossible == \/ IsBelow(parent, moved) \/ Has(parent, "delete")
                      \/ Exists(holder) /\ Node(holder).ev \cap {"create", "move"} # {}
    IN  [Operation("move", CorrespondingInOtherTree(moved), moved, moved[1]) EXCEPT
            !.newParent = IF impossible THEN RootOf(moved[1]) ELSE parent,
            !.newName = IF impossible THEN name ELSE Last(origin),
            !.conflict = c]
CanUndo(moved) ==
    Node(moved).origin # <<>> /\ Exists(NodeAt(moved[1], Front(Node(moved).origin)))

\* Of two moves of one item the local one is undone; of an orphan the side whose
\* folder was not deleted.
Loser(c, orphans) ==
    IF \E o \in orphans : o[1] = Node(c.node).idb
    THEN IF <<Node(c.node).idb, Local>> \in orphans THEN RemoteNode(c) ELSE LocalNode(c)
    ELSE LocalNode(c)

\* The move that is undone, if any.
Undone(c, orphans) ==
    CASE c.type = "moveParentDelete" -> WithEvent(c, "move")
      [] c.type = "moveMoveSource"   -> Loser(c, orphans)
      [] c.type = "moveMoveCycle"    -> LocalNode(c)
      [] OTHER                       -> NoNode

\* generateOperations fails: the cycle is aborted.
Unsolvable(c, orphans) ==
    \/ c.type = "moveDelete" /\ \E r \in Orphans(WithEvent(c, "delete")) :
            LET s == WithEvent(c, "delete")[1]
            IN  ~Exists(CorrespondingInOtherTree(<<s, SideId(s, r)>>))
    \/ Undone(c, orphans) # NoNode /\ ~CanUndo(Undone(c, orphans))

\* generateOperations.
Solution(c, queue, orphans) ==
    CASE c.type \in RenameConflicts   -> <<RenameLocal(c, NewName)>>
      [] c.type = "editDelete"        -> SolveEditDelete(c, NewName)
      [] c.type = "moveDelete"        -> IF LeftToTheParent(c, queue) THEN <<>>
                                         ELSE SolveMoveDelete(c, NewName)
      [] c.type = "createParentDelete" ->
            LET deleted == WithEvent(c, "delete")
                there == CorrespondingInOtherTree(deleted)
            IN  <<[Operation("delete", deleted, there, there[1]) EXCEPT !.conflict = c]>>
      [] OTHER                        -> <<UndoMove(c, Undone(c, orphans), NewName)>>

\* The conflicts that rename a local file are solved all in one cycle; any other
\* one is solved alone.
GoesOn(c, queue) == c.type \in RenameConflicts \/ LeftToTheParent(c, queue)
=============================================================================
