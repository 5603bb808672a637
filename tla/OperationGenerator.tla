------------------------- MODULE OperationGenerator -------------------------
(***************************************************************************)
(* The operations that propagate the changes of both replicas when there   *)
(* is no conflict (operation_generator/operationgeneratorworker.cpp).      *)
(***************************************************************************)
EXTENDS ConflictResolver

\* The order in which both trees are explored: level by level from both roots, until
\* a level is empty.
Exploration ==
    LET depth == Cardinality(Nodes)
        level[d \in 0..depth] ==
            IF d = 0 THEN <<RootOf(Local), RootOf(Remote)>>
            ELSE LET above == level[d - 1]
                     below(n) == LET ids == InOrder(Children(n))
                                 IN  [j \in 1..Len(ids) |-> <<n[1], ids[j]>>]
                 IN  FlattenSeq([k \in 1..Len(above) |-> below(above[k])])
    IN  FlattenSeq([d \in 1..depth |-> level[d]])

\* The worker: the operations, the nodes that are processed, those for which a
\* delete was generated, whether it asked for another cycle, whether it failed.
Start == [ops |-> <<>>, processed |-> {}, deleted |-> {}, restart |-> FALSE, failed |-> FALSE]

With(g, op, processed) == [g EXCEPT !.ops = Append(@, op), !.processed = @ \cup processed]

GenerateCreate(g, n, m) ==
    LET op == [Operation("create", n, NoNode, OtherSide(n[1])) EXCEPT !.newName = Node(n).name]
    IN  IF m # NoNode /\ IsPseudoConflict(n, m)
        THEN With(g, [op EXCEPT !.omit = TRUE, !.other = m], {n, m})
        ELSE With(g, op, {n})

\* One delete for a whole folder: what is in it is processed with it.
GenerateDelete(g, n, m) ==
    LET both == Has(m, "delete")
        op == [Operation("delete", n, m, m[1]) EXCEPT !.omit = both]
    IN  IF Parent(n) \in g.deleted THEN g
        ELSE [With(g, op, {n, m} \cup SubNodes(n) \cup SubNodes(m)) EXCEPT
                !.deleted = @ \cup {n}, !.restart = @ \/ both]

\* A node with an edit and a move is processed once both are generated, as they
\* are in turn.
GenerateChange(g, n, m, type) ==
    LET op == Operation(type, n, m, m[1])
        named == IF type = "move" THEN [op EXCEPT !.newName = Node(n).name] ELSE op
    IN  IF IsPseudoConflict(n, m) THEN With(g, [named EXCEPT !.omit = TRUE], {n, m})
        ELSE With(g, named, {n})

\* A step of execute's loop.
Generate(g, n) ==
    LET m == CorrespondingInOtherTree(n)
        created == IF Has(n, "create") THEN GenerateCreate(g, n, m) ELSE g
        deleted == IF Has(n, "delete") THEN GenerateDelete(created, n, m) ELSE created
        edited == IF Has(n, "edit") THEN GenerateChange(deleted, n, m, "edit") ELSE deleted
        moved == IF Has(n, "move") THEN GenerateChange(edited, n, m, "move") ELSE edited
    IN  IF g.failed \/ n \in g.processed THEN g
        ELSE IF m = NoNode /\ Node(n).ev # {} /\ ~Has(n, "create") THEN [g EXCEPT !.failed = TRUE]
        ELSE moved

Generated ==
    LET nodes == Exploration
        generated[k \in 0..Len(nodes)] ==
            IF k = 0 THEN Start ELSE Generate(generated[k - 1], nodes[k])
    IN  generated[Len(nodes)]
=============================================================================
