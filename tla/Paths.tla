------------------------------- MODULE Paths -------------------------------
(***************************************************************************)
(* Items that have a parent and a name, and their paths. Ids and names are *)
(* numbers; a path is the sequence of the names under the root.            *)
(***************************************************************************)
EXTENDS Integers, Sequences, FiniteSets, SequencesExt, FiniteSetsExt

Local == "local"
Remote == "remote"
Sides == {Local, Remote}
OtherSide(s) == IF s = Local THEN Remote ELSE Local

Root == 0
None == -1
Events == {"create", "delete", "edit", "move"}

\* f has the parent and the name of every item but the root.
PathIn(f, i) ==
    LET path[k \in DOMAIN f \cup {Root}] ==
            IF k = Root THEN <<>> ELSE Append(path[f[k].parent], f[k].name)
    IN  path[i]

\* The items of f under i.
Under(f, i) ==
    {k \in DOMAIN f : k # i /\ i \in {Root} \cup
        LET up[j \in DOMAIN f] == IF f[j].parent = Root THEN {j} ELSE {j} \cup up[f[j].parent]
        IN  up[k]}

\* What is left of f when i is removed with everything under it.
Pruned(f, i) == [k \in DOMAIN f \ ({i} \cup Under(f, i)) |-> f[k]]

\* f with x at i.
Put(f, i, x) == [k \in DOMAIN f \cup {i} |-> IF k = i THEN x ELSE f[k]]

StartsWith(path, prefix) ==
    /\ Len(prefix) < Len(path)
    /\ SubSeq(path, 1, Len(prefix)) = prefix
=============================================================================
