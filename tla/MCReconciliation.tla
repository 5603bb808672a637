-------------------------- MODULE MCReconciliation --------------------------
(***************************************************************************)
(* What the users do before the cycles: from two replicas in sync with two *)
(* folders and a file in one of them, a few changes on either side.        *)
(***************************************************************************)
EXTENDS Reconciliation

CONSTANTS
    LocalChanges, RemoteChanges,    \* bounds on the changes of each side
    AllChanges                      \* bound on their number

\* The folders 1 and 4, the folder 2 in 1 and the file 3 in 2, with the same ids on
\* both sides.
Base == (1 :> [parent |-> Root, name |-> 1, dir |-> TRUE, ver |-> 0]) @@
        (2 :> [parent |-> 1, name |-> 2, dir |-> TRUE, ver |-> 0]) @@
        (3 :> [parent |-> 2, name |-> 1, dir |-> FALSE, ver |-> 1]) @@
        (4 :> [parent |-> Root, name |-> 2, dir |-> TRUE, ver |-> 0])
Names == 1..3
Rows == [r \in DOMAIN Base |-> [remote |-> r, parent |-> Base[r].parent, name |-> Base[r].name,
                                dir |-> Base[r].dir, ver |-> Base[r].ver]]

Folders(f) == {Root} \cup {i \in DOMAIN f : f[i].dir}
FreeIn(f, p, n) == ~\E i \in DOMAIN f : f[i].parent = p /\ f[i].name = n

\* The file systems after one more change; v makes the contents it writes unique.
Created(f, v) ==
    {((Max(DOMAIN f \cup DOMAIN Base) + 1) :> [parent |-> p, name |-> n, dir |-> d, ver |-> IF d THEN 0 ELSE v]) @@ f :
        <<p, n, d>> \in {x \in Folders(f) \X Names \X BOOLEAN : FreeIn(f, x[1], x[2])}}
Edited(f, v) == {[f EXCEPT ![i].ver = v] : i \in {i \in DOMAIN f : ~f[i].dir}}
MovedAway(f) ==
    UNION {{[f EXCEPT ![i].parent = x[1], ![i].name = x[2]] :
                x \in {x \in (Folders(f) \ ({i} \cup Under(f, i))) \X Names : FreeIn(f, x[1], x[2])}} :
           i \in DOMAIN f}
Deleted(f) == {Pruned(f, i) : i \in DOMAIN f}
After(f, v) == Created(f, v) \cup Edited(f, v) \cup MovedAway(f) \cup Deleted(f)

\* After at most n changes.
Changed(n, v) ==
    LET after[k \in 0..n] ==
            IF k = 0 THEN {Base}
            ELSE LET before == after[k - 1] IN before \cup UNION {After(f, v + k) : f \in before}
    IN  after[n]

\* What the code does not bring in sync (README, section 10), and the run leaves out:
\* an item takes the place another one moved away from,
Where(f, i) == <<f[i].parent, f[i].name>>
Moved(f) == {i \in DOMAIN Base \cap DOMAIN f : Where(f, i) # Where(Base, i)}
TakesAFreedPlace(f) ==
    \E i, j \in Moved(f) : i # j /\ Where(f, i) = Where(Base, j)

\* a new one takes the place of a deleted one and becomes one node with it, which is
\* not so of the files of the drive,
TakesADeletedPlace(s, f) ==
    \E i \in DOMAIN f \ DOMAIN Base, j \in DOMAIN Base \ DOMAIN f :
        /\ Where(f, i) = Where(Base, j)
        /\ s = Local \/ f[i].dir \/ Base[j].dir

\* an item moves into a new folder of the same name,
MovesIntoANamesake(f) ==
    \E i \in Moved(f) : LET p == f[i].parent
                        IN  p \notin DOMAIN Base \cup {Root} /\ f[p].name = f[i].name

\* or the drive moves an item into a folder that moved on the local disk.
MovesIntoAMovedFolder(f, g) ==
    \E i \in Moved(g) : \E p \in Moved(f) : g[i].parent = p \/ g[i].parent \in Under(f, p)

\* The contents f must not lose: those written there and those of both sides, unless
\* something is new with them, or they are new, in a folder the other side deleted.
Kept(f, g) ==
    LET doomed == {i \in DOMAIN f : \E p \in DOMAIN Base \ DOMAIN g :
                        /\ i \in Under(f, p)
                        /\ Under(f, p) \subseteq DOMAIN Base => i \notin DOMAIN Base}
        both(i) == i \in DOMAIN Base \cap DOMAIN g /\ f[i].ver = g[i].ver
    IN  {f[i].ver : i \in {i \in DOMAIN f \ doomed : ~f[i].dir /\ (f[i].ver # 1 \/ both(i))}}
StartOf(f, g, contents) ==
    [fs |-> [s \in Sides |-> IF s = Local THEN f ELSE g], db |-> Rows, kept |-> contents]

\* Any changes within the bounds.
ChangedStarts ==
    {StartOf(p[1], p[2], Kept(p[1], p[2]) \cup Kept(p[2], p[1])) :
        p \in UNION {Changed(n, 10) \X Changed(Min({RemoteChanges, AllChanges - n}), 20) :
                        n \in 0..LocalChanges}}

\* One side moves what the other deletes, after it has moved something out of it.
OrphanStarts ==
    LET gone == UNION {Deleted(f) : f \in MovedAway(Base)}
        pairs == {p \in MovedAway(Base) \X gone : Moved(p[1]) \cap DOMAIN p[2] = {}}
    IN  {StartOf(p[1], p[2], {}) : p \in pairs} \cup {StartOf(p[2], p[1], {}) : p \in pairs}

QuietStarts ==
    {start \in ChangedStarts \cup OrphanStarts :
        /\ \A s \in Sides : /\ ~TakesAFreedPlace(start.fs[s])
                           /\ ~TakesADeletedPlace(s, start.fs[s])
                           /\ ~MovesIntoANamesake(start.fs[s])
        /\ ~MovesIntoAMovedFolder(start.fs[Local], start.fs[Remote])}
=============================================================================
