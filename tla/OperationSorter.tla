-------------------------- MODULE OperationSorter --------------------------
(***************************************************************************)
(* The order of the operations of a cycle                                  *)
(* (operation_sorter/operationsorterworker.cpp). Nine rules are applied    *)
(* again and again; each one looks for pairs of operations on one replica  *)
(* of which the first must come after the second. The rules look at the    *)
(* list as it was generated (_unsortedList); they move operations in the   *)
(* list of the cycle. An operation is the index of its place in the first. *)
(***************************************************************************)
EXTENDS OperationGenerator

\* The state of the sorter: the list, what each operation waits for (parentId),
\* _reorderings, and whether a rule has changed the order.
Sorter(n) == [list |-> [k \in 1..n |-> k], after |-> [k \in 1..n |-> 0],
              reorderings |-> <<>>, changed |-> FALSE]

\* The place of an operation in the list.
At(list, k) == CHOOSE j \in DOMAIN list : list[j] = k

\* Mutant: the first is put in front of the second, and waits for it.
MoveFirstToSecond(w, first, second) ==
    LET from == At(w.list, first)
        to == At(w.list, second)
    IN  [w EXCEPT !.list = IF from >= to THEN @
                           ELSE [j \in DOMAIN @ |-> IF j < from \/ j >= to THEN @[j]
                                                    ELSE IF j = to - 1 THEN first ELSE @[j + 1]],
                  !.after[first] = second]

\* moveFirstAfterSecond: what stood between them moves up. The first waits for the
\* second even if they are in order.
MoveFirstAfterSecond(w, first, second) ==
    LET from == At(w.list, first)
        to == At(w.list, second)
        pair == <<second, first>>
    IN  [list |-> IF from >= to THEN w.list
                  ELSE [j \in DOMAIN w.list |-> IF j < from \/ j > to THEN w.list[j]
                                                ELSE IF j = to THEN first ELSE w.list[j + 1]],
         after |-> [w.after EXCEPT ![first] = second],
         reorderings |-> IF from >= to \/ pair \in ToSet(w.reorderings) THEN w.reorderings
                         ELSE Append(w.reorderings, pair),
         changed |-> w.changed \/ from < to]

\* Applies moveFirstAfterSecond to pairs of operations, one after the other.
Rule(w, pairs) ==
    LET fixed[k \in 0..Len(pairs)] ==
            IF k = 0 THEN w
            ELSE MoveFirstAfterSecond(fixed[k - 1], pairs[k][1], pairs[k][2])
    IN  fixed[Len(pairs)]

\* The members of a set in the order R, a set of pairs of them.
Arranged(S, R) ==
    [k \in 1..Cardinality(S) |->
        CHOOSE x \in S : Cardinality({y \in S : <<y, x>> \in R}) = k - 1]

\* The order in which a rule meets its pairs: one loop in the other, over the first
\* or the second operations.
ByFirst(P) ==
    Arranged(P, {r \in P \X P : \/ Before(r[1][1], r[2][1])
                                \/ r[1][1] = r[2][1] /\ Before(r[1][2], r[2][2])})
BySecond(P) ==
    Arranged(P, {r \in P \X P : \/ Before(r[1][2], r[2][2])
                                \/ r[1][2] = r[2][2] /\ Before(r[1][1], r[2][1])})

\* The operations of a type, and the pairs of two types on one replica.
OfType(ops, type) == {k \in 1..Len(ops) : ops[k].type = type}
Pairs(ops, first, second) ==
    {p \in OfType(ops, first) \X OfType(ops, second) :
        p[1] # p[2] /\ ops[p[1]].target = ops[p[2]].target}

\* The id in the database of the parent of an operation's node, at its row and at
\* the path it was moved from; both are ids of the side of the node.
OldParent(n) ==
    LET row == RowOf(n[1], n[2])
    IN  IF row = None THEN None ELSE SideId(n[1], db[row].parent)
OriginParent(n) ==
    LET row == IF Node(n).origin = <<>> THEN None ELSE RowAt(Front(Node(n).origin))
    IN  IF row = None THEN None ELSE SideId(n[1], row)
SameName(n, m) == Node(n).name = Node(m).name

\* A delete frees the name a move takes.
DeleteBeforeMove(ops) ==
    {p \in Pairs(ops, "move", "delete") :
        LET m == ops[p[1]].node
            d == ops[p[2]].node
        IN  OldParent(d) = Parent(m)[2] /\ SameName(d, m)}
FixDeleteBeforeMove(w, ops) == Rule(w, BySecond(DeleteBeforeMove(ops)))

\* A move frees the name a create takes; the names alone are compared in the
\* second case.
MoveBeforeCreate(ops) ==
    {p \in Pairs(ops, "create", "move") :
        LET c == ops[p[1]].node
            m == ops[p[2]].node
            other == CorrespondingInOtherTree(m)
        IN  \/ OriginParent(m) = Parent(c)[2] /\ SameName(m, c)
            \/ Exists(other) /\ SameName(other, c)}
FixMoveBeforeCreate(w, ops) == Rule(w, BySecond(MoveBeforeCreate(ops)))

\* A move takes an item out of a folder that is deleted.
MoveBeforeDelete(ops) ==
    {p \in Pairs(ops, "delete", "move") :
        LET d == ops[p[1]].node
            m == ops[p[2]].node
        IN  Node(d).dir /\ StartsWith(Node(m).origin, DbPath(RowOf(d[1], d[2])))}
FixMoveBeforeDelete(w, ops) == Rule(w, ByFirst(MoveBeforeDelete(ops)))

\* A folder is created before an item moves into it.
CreateBeforeMove(ops) ==
    {p \in Pairs(ops, "move", "create") :
        LET m == ops[p[1]].node
            c == ops[p[2]].node
        IN  Node(c).dir /\ Parent(m) = c}

\* Mutant: the pair is taken in the wrong order.
FixMoveBeforeItsFolder(w, ops) ==
    Rule(w, ByFirst({<<p[2], p[1]>> : p \in CreateBeforeMove(ops)}))

FixCreateBeforeMove(w, ops) == Rule(w, BySecond(CreateBeforeMove(ops)))

\* A delete frees the name a create takes.
DeleteBeforeCreate(ops) ==
    {p \in Pairs(ops, "create", "delete") :
        LET c == ops[p[1]].node
            d == ops[p[2]].node
        IN  OldParent(d) = Parent(c)[2] /\ SameName(d, c)}
FixDeleteBeforeCreate(w, ops) == Rule(w, BySecond(DeleteBeforeCreate(ops)))

\* A move takes the place another one leaves, which waits. Each pair of moves is
\* looked at once.
MoveBeforeMoveOccupied(ops) ==
    {p \in Pairs(ops, "move", "move") :
        LET leaves == ops[p[1]].node
            takes == ops[p[2]].node
        IN  /\ Before(p[2], p[1])
            /\ OriginParent(leaves) = Parent(takes)[2]
            /\ SameName(leaves, takes)}
FixMoveBeforeMoveOccupied(w, ops) == Rule(w, BySecond(MoveBeforeMoveOccupied(ops)))

\* The create of the folder an operation's node is in, or 0.
Maker(ops, k) ==
    LET makers == {c \in OfType(ops, "create") : ops[c].node = Parent(ops[k].node)}
    IN  IF makers = {} THEN 0 ELSE Min(makers)

\* The operation, the maker of its folder, the maker of that one's folder, and so on.
Makers(ops, k) ==
    LET up[d \in 0..Len(ops)] ==
            IF d = 0 THEN k ELSE IF up[d - 1] = 0 THEN 0 ELSE Maker(ops, up[d - 1])
    IN  up
Depth(ops, k) == Cardinality({d \in 1..Len(ops) : Makers(ops, k)[d] # 0})

\* hasParentWithHigherIndex: whether the create c has a higher index than operation k.
\* Only creates are numbered; the others have the number of the first.
HigherIndex(list, ops, c, k) ==
    \E e \in OfType(ops, "create") :
        At(list, e) < At(list, c) /\ (ops[k].type = "create" => e = k)

\* The maker at the highest level that is out of order with what it is the maker of.
Ancestor(list, ops, k) ==
    LET up == Makers(ops, k)
        late == {d \in 1..Len(ops) : up[d] # 0 /\ HigherIndex(list, ops, up[d], up[d - 1])}
    IN  IF late = {} THEN 0 ELSE up[Max(late)]

\* The operations on what is under a folder that is created come after it, the
\* deepest operations first.
CreateBeforeCreate(list, ops) ==
    {<<k, Ancestor(list, ops, k)>> : k \in {k \in 1..Len(ops) : Ancestor(list, ops, k) # 0}}
FixCreateBeforeCreate(w, ops) ==
    LET late == CreateBeforeCreate(w.list, ops)
        depth == [k \in 1..Len(ops) |-> Depth(ops, k)]
        before(a, b) == depth[a] > depth[b] \/ (depth[a] = depth[b] /\ a < b)
    IN  Rule(w, Arranged(late, {r \in late \X late : before(r[1][1], r[2][1])}))

\* A node that moved has its new name: the edit comes after the move.
MoveBeforeEdit(ops) ==
    {p \in Pairs(ops, "edit", "move") : ops[p[1]].node[2] = ops[p[2]].node[2]}
FixEditBeforeMove(w, ops) == Rule(w, ByFirst(MoveBeforeEdit(ops)))

\* A folder that moves into one that was in it comes after it.
HierarchyFlip(ops) ==
    {p \in Pairs(ops, "move", "move") :
        LET n == ops[p[1]].node
            m == ops[p[2]].node
        IN  /\ Node(n).dir /\ Node(m).dir
            /\ StartsWith(Path(n), Path(m))
            /\ StartsWith(Node(m).origin, Node(n).origin)}
FixMoveBeforeMoveHierarchyFlip(w, ops) == Rule(w, ByFirst(HierarchyFlip(ops)))

Pass(w, ops) ==
    LET unchanged == [w EXCEPT !.changed = FALSE] IN
    FixMoveBeforeMoveHierarchyFlip(FixEditBeforeMove(FixCreateBeforeCreate(
    FixMoveBeforeMoveOccupied(FixDeleteBeforeCreate(FixCreateBeforeMove(
    FixMoveBeforeDelete(FixMoveBeforeCreate(FixDeleteBeforeMove(
        unchanged, ops), ops), ops), ops), ops), ops), ops), ops), ops)

-----------------------------------------------------------------------------
\* findCompleteCycles: from each pair, a walk along the other ones in the order
\* they were recorded. A pair that was followed is erased and the one after it is
\* passed over; past an erased end the walk starts again, as the end of the list is
\* next to its beginning. The first walk that comes back is the cycle.
WalkFrom(pairs, k) ==
    LET start == pairs[k]
        step(v) ==
            LET p == v.rest[v.at]
                rest == RemoveAt(v.rest, v.at)
            IN  IF p[1] # Last(v.path) THEN [v EXCEPT !.at = @ + 1]
                ELSE IF p[2] = start[1] THEN [path |-> Append(v.path, p[2]), rest |-> <<>>, at |-> 1]
                ELSE [path |-> Append(v.path, p[2]), rest |-> rest,
                      at |-> IF v.at > Len(rest) THEN 1 ELSE v.at + 1]
        walk[n \in 0..(Len(pairs) * Len(pairs))] ==
            IF n = 0 THEN [path |-> start, rest |-> RemoveAt(pairs, k), at |-> 1]
            ELSE LET v == walk[n - 1] IN IF v.at > Len(v.rest) THEN v ELSE step(v)
    IN  walk[Len(pairs) * Len(pairs)].path
CompleteCycle(w) ==
    LET walks == [j \in 1..Len(w.reorderings) |-> WalkFrom(w.reorderings, j)]
        k == SelectInSeq(walks, LAMBDA path : path[1] = Last(path))
    IN  IF k = 0 THEN <<>> ELSE Front(walks[k])

\* sortOperations' loop.
Sorted(ops) ==
    LET bound == Len(ops) * Len(ops) + 2
        passes[k \in 0..bound] ==
            IF k = 0 THEN [Sorter(Len(ops)) EXCEPT !.changed = TRUE]
            ELSE LET w == passes[k - 1]
                 IN  IF ~w.changed \/ CompleteCycle(w) # <<>> THEN w ELSE Pass(w, ops)
    IN  passes[bound]

\* breakCycle: the counterpart of the item a delete of the cycle removes, or else
\* that one of its moves moves, is renamed for the time of a cycle.
Chosen(ops, cycle) ==
    LET deletes == {k \in ToSet(cycle) : ops[k].type = "delete"}
        moves == {k \in ToSet(cycle) : ops[k].type = "move"}
    IN  FirstOf(IF deletes # {} THEN deletes ELSE moves)
BreakCycle(ops, cycle) ==
    LET chosen == Chosen(ops, cycle)
        n == CorrespondingInOtherTree(ops[chosen].node)
    IN  [Operation("move", n, NoNode, n[1]) EXCEPT
            !.newName = NewName, !.omit = ops[chosen].omit]

\* fixImpossibleFirstMoveOp: the list is cut after the first of the moves that
\* stand between the source and the destination of its first operation.
ImpossibleFirstMove(ops, list) ==
    LET o == ops[list[1]]
        from == CorrespondingInOtherTree(o.node)
        to == CorrespondingInOtherTree(Parent(o.node))
    IN  /\ o.type = "move" \/ Node(o.node).dir
        /\ StartsWith(Path(o.node), Node(o.node).origin)
        /\ Exists(from) /\ Exists(to)
        /\ Node(o.node).origin # <<>>
Reshuffled(ops, list) ==
    LET o == ops[list[1]]
        from == CorrespondingInOtherTree(o.node)
        to == CorrespondingInOtherTree(Parent(o.node))
        between == {n \in Nodes : /\ Node(n).dir /\ Has(n, "move")
                                  /\ n # from /\ IsBelow(from, n)
                                  /\ IsBelow(from, to) => IsBelow(n, to)}
        first == SelectInSeq(list, LAMBDA k : ops[k].node \in between)
        places == {j \in DOMAIN list :
                    \/ j = first
                    \/ /\ first = 0 \/ j < first
                       /\ ops[list[j]].target = to[1] \/ ops[list[j]].omit}
        left == Arranged(places, {p \in places \X places : p[1] < p[2]})
    IN  [k \in DOMAIN left |-> list[left[k]]]

\* The operations in the order of a list, with the place of what each one waits for.
Linked(ops, after, list) ==
    [k \in 1..Len(list) |->
        [ops[list[k]] EXCEPT !.after = IF after[list[k]] = 0 THEN 0
                                       ELSE SelectInSeq(list, LAMBDA x : x = after[list[k]])]]

\* sortOperations: the operations in their order, with what each one waits for,
\* and whether another cycle must follow.
SortOperations(ops) ==
    LET w == Sorted(ops)
        cycle == CompleteCycle(w)
    IN  IF ops = <<>> THEN [ops |-> <<>>, restart |-> FALSE]
        ELSE IF cycle # <<>> /\ Exists(CorrespondingInOtherTree(ops[Chosen(ops, cycle)].node))
             THEN [ops |-> <<BreakCycle(ops, cycle)>>, restart |-> TRUE]
        ELSE IF ImpossibleFirstMove(ops, w.list) /\ Reshuffled(ops, w.list) # <<>>
             THEN [ops |-> Linked(ops, w.after, Reshuffled(ops, w.list)), restart |-> TRUE]
        ELSE [ops |-> Linked(ops, w.after, w.list), restart |-> FALSE]

\* The loop ends when a pass has changed nothing or there is a cycle, which is then
\* broken unless what is chosen of it has no counterpart.
SortingEnds(ops) == LET w == Sorted(ops) IN w.changed => CompleteCycle(w) # <<>>
CyclesAreBroken(ops) ==
    LET cycle == CompleteCycle(Sorted(ops))
    IN  cycle # <<>> => Exists(CorrespondingInOtherTree(ops[Chosen(ops, cycle)].node))

-----------------------------------------------------------------------------
\* What the rules count on in the generated operations. What has something in it is a
\* folder; the chain of the makers of an operation ends; what is put into a folder that
\* is created is another create, a move, or the edit of what moves.
MakersMakeFolders(ops) ==
    \A k \in 1..Len(ops) : Maker(ops, k) # 0 => Node(ops[Maker(ops, k)].node).dir
MakersEnd(ops) == \A k \in 1..Len(ops) : Makers(ops, k)[Len(ops)] = 0
MadeIsMoved(ops) ==
    \A k \in 1..Len(ops) :
        Maker(ops, k) # 0 /\ ops[k].type # "create" =>
            \/ <<k, Maker(ops, k)>> \in CreateBeforeMove(ops)
            \/ \E m \in 1..Len(ops) : /\ <<k, m>> \in MoveBeforeEdit(ops)
                                      /\ <<m, Maker(ops, k)>> \in CreateBeforeMove(ops)
RulesCanCount(ops) == MakersMakeFolders(ops) /\ MakersEnd(ops) /\ MadeIsMoved(ops)
=============================================================================
