------------------------------ MODULE Replicas ------------------------------
(***************************************************************************)
(* What a cycle of the synchronization works on: the file systems of the   *)
(* two replicas, the database of what was synchronized, and the update     *)
(* trees, each with the nodes of one replica and what happened to them     *)
(* since the last cycle (update_detector/node.cpp, updatetree.cpp), with   *)
(* the way from a node to the one it corresponds to in the other tree      *)
(* (syncpal/operationprocessor.cpp).                                       *)
(*                                                                         *)
(* An id names an item of one replica; a row of the database has the id of *)
(* its local item for key. Of the content of a file only its version is    *)
(* kept: two versions are equal when date and size are.                    *)
(***************************************************************************)
EXTENDS Paths

VARIABLES
    fs,         \* the items of each replica, with parent, name, kind and version
    db,         \* the rows: remote id, parent row, name and version
    tree,       \* the update trees
    downward    \* the order in which the unordered containers are walked

NoNode == <<Local, None>>

\* The elements of a set of numbers in the order its container is walked.
Before(a, b) == IF downward THEN a > b ELSE a < b
InOrder(S) ==
    [k \in 1..Cardinality(S) |-> CHOOSE x \in S : Cardinality({y \in S : Before(y, x)}) = k - 1]
FirstOf(S) == IF S = {} THEN None ELSE CHOOSE x \in S : \A y \in S \ {x} : Before(x, y)

-----------------------------------------------------------------------------
\* The item of f with a path, or None: any of them, when several have it.
ItemAt(f, path) ==
    LET child(p, n) == FirstOf({k \in DOMAIN f : f[k].parent = p /\ f[k].name = n})
    IN  FoldLeft(LAMBDA p, n : IF p = None THEN None ELSE child(p, n), Root, path)

-----------------------------------------------------------------------------
\* The rows. Those of the database are keyed by the local id.
SideId(s, row) == IF row = Root \/ s = Local THEN row ELSE db[row].remote
RowOf(s, i) ==
    IF i = Root THEN Root
    ELSE FirstOf({r \in DOMAIN db : SideId(s, r) = i})
DbPath(row) == PathIn(db, row)

\* The row at a path of the database.
RowAt(path) == ItemAt(db, path)

-----------------------------------------------------------------------------
\* The nodes. A node removed from its tree keeps its fields: operations and
\* conflicts still point to it.
RootNode == [parent |-> None, name |-> 0, dir |-> TRUE, ev |-> {}, origin |-> <<>>,
             idb |-> Root, in |-> TRUE]
Node(n) == tree[n[1]][n[2]]
InTree(n) == n[2] \in DOMAIN tree[n[1]] /\ Node(n).in
Nodes == UNION {{<<s, i>> : i \in {k \in DOMAIN tree[s] : tree[s][k].in}} : s \in Sides}
Has(n, event) == event \in Node(n).ev
IsRoot(n) == n[2] = Root
Parent(n) == IF IsRoot(n) THEN NoNode ELSE <<n[1], Node(n).parent>>

\* Node::getPath.
Items(s) == [i \in DOMAIN tree[s] \ {Root} |-> tree[s][i]]
Path(n) == IF IsRoot(n) THEN <<>> ELSE PathIn(Items(n[1]), n[2])

Children(n) ==
    {i \in DOMAIN tree[n[1]] : tree[n[1]][i].in /\ tree[n[1]][i].parent = n[2]}

\* Node::getChildExcept(name, OperationTypeDelete).
ChildExcept(n, name) ==
    <<n[1], FirstOf({i \in Children(n) : /\ tree[n[1]][i].name = name
                                         /\ "delete" \notin tree[n[1]][i].ev})>>

\* UpdateTree::getNodeByPath.
NodeAt(s, path) ==
    LET kept == {i \in DOMAIN Items(s) : tree[s][i].in}
    IN  <<s, ItemAt([i \in kept |-> tree[s][i]], path)>>

\* OperationProcessor::isABelowB, which a node that is not the root is of itself.
IsBelow(a, b) ==
    /\ a[1] = b[1] /\ ~IsRoot(a) /\ ~IsRoot(b)
    /\ a = b \/ a[2] \in Under(Items(a[1]), b[2])

\* The nodes under n, in its tree.
SubNodes(n) == {m \in Nodes : m[1] = n[1] /\ m[2] \in Under(Items(n[1]), n[2])}

-----------------------------------------------------------------------------
\* OperationProcessor::correspondingNodeDirect: by the row the node knows.
CorrespondingDirect(n) ==
    LET row == Node(n).idb
        other == <<OtherSide(n[1]), SideId(OtherSide(n[1]), row)>>
    IN  IF row = None \/ row \notin DOMAIN db \cup {Root} THEN NoNode
        ELSE IF InTree(other) THEN other ELSE NoNode

\* findCorrespondingNodeFromPath: from the closest ancestor that has a row, down
\* the same names in the other tree.
CorrespondingByPath(n) ==
    LET s == OtherSide(n[1])
        climb[k \in DOMAIN tree[n[1]]] ==
            IF RowOf(n[1], k) # None THEN <<k, <<>>>>
            ELSE LET up == climb[tree[n[1]][k].parent]
                 IN  <<up[1], Append(up[2], tree[n[1]][k].name)>>
        ancestor == <<s, SideId(s, RowOf(n[1], climb[n[2]][1]))>>
    IN  IF ~InTree(ancestor) THEN NoNode
        ELSE LET m == NodeAt(s, Path(ancestor) \o climb[n[2]][2])
             IN  IF m[2] = None THEN NoNode ELSE m

\* correspondingNodeInOtherTree.
CorrespondingInOtherTree(n) ==
    IF Node(n).idb # None \/ RowOf(n[1], n[2]) # None THEN CorrespondingDirect(n)
    ELSE CorrespondingByPath(n)

\* isPseudoConflict: the two sides did the same.
IsPseudoConflict(a, b) ==
    LET same(x, y) == fs[x[1]][x[2]].ver = fs[y[1]][y[2]].ver
        wrote(x) == Node(x).ev \cap {"create", "edit"} # {}
    IN  \/ /\ Has(a, "create") /\ Has(b, "create")
           /\ Node(a).dir /\ Node(b).dir
        \/ /\ Has(a, "move") /\ Has(b, "move")
           /\ Node(Parent(a)).idb = Node(Parent(b)).idb
           /\ Node(a).name = Node(b).name
        \/ /\ ~Node(a).dir /\ ~Node(b).dir
           /\ wrote(a) /\ wrote(b) /\ same(a, b)

-----------------------------------------------------------------------------
\* The update tree of a replica at the start of a cycle: a node for each item of
\* its snapshot, and for each one of the database that is gone.
Detected(s) ==
    LET here == DOMAIN fs[s]
        known == {SideId(s, r) : r \in DOMAIN db}
        row(i) == RowOf(s, i)
        place(i) == IF i \in here THEN [parent |-> fs[s][i].parent, name |-> fs[s][i].name]
                    ELSE [parent |-> SideId(s, db[row(i)].parent), name |-> db[row(i)].name]
        moved(i) == /\ i \in here
                    /\ place(i) # [parent |-> SideId(s, db[row(i)].parent), name |-> db[row(i)].name]
        events(i) ==
            {e \in Events :
                CASE e = "create" -> i \notin known
                  [] e = "delete" -> i \notin here
                  [] e = "edit"   -> i \in here \cap known /\ ~fs[s][i].dir /\ fs[s][i].ver # db[row(i)].ver
                  [] e = "move"   -> i \in known /\ moved(i)}
    IN  [i \in here \cup known \cup {Root} |->
            IF i = Root THEN RootNode
            ELSE [parent |-> place(i).parent, name |-> place(i).name,
                  dir |-> IF i \in here THEN fs[s][i].dir ELSE db[row(i)].dir,
                  ev |-> events(i),
                  origin |-> IF i \in known /\ moved(i) THEN DbPath(row(i)) ELSE <<>>,
                  idb |-> row(i), in |-> TRUE]]
=============================================================================
