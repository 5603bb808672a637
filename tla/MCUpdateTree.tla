---------------------------- MODULE MCUpdateTree ----------------------------
(***************************************************************************)
(* Snapshots: a few changes of a small tree.                               *)
(***************************************************************************)
EXTENDS UpdateTree

CONSTANTS
    FirstChanges,   \* bound on the changes before the first cycle
    AloneChanges,   \* before the second one, when there was none before the first
    NextChanges     \* and when there was one

Base == (1 :> [parent |-> Root, name |-> 1, dir |-> TRUE, ver |-> 0]) @@
        (2 :> [parent |-> 1, name |-> 2, dir |-> TRUE, ver |-> 0]) @@
        (3 :> [parent |-> 2, name |-> 1, dir |-> FALSE, ver |-> 1]) @@
        (4 :> [parent |-> 2, name |-> 2, dir |-> TRUE, ver |-> 0])
Names == 1..3
Folders(f) == {Root} \cup {i \in DOMAIN f : f[i].dir}
FreeIn(f, p, n) == ~\E i \in DOMAIN f : f[i].parent = p /\ f[i].name = n

\* New folders have even ids, new files odd ones.
NewIdIn(f, dir) == CHOOSE i \in (IF dir THEN {6, 8, 10} ELSE {5, 7, 9}) :
                    /\ i \notin DOMAIN f
                    /\ \A j \in (IF dir THEN {6, 8, 10} ELSE {5, 7, 9}) : j < i => j \in DOMAIN f
Created(f) ==
    {(NewIdIn(f, d) :> [parent |-> p, name |-> n, dir |-> d, ver |-> 0]) @@ f :
        <<p, n, d>> \in {x \in Folders(f) \X Names \X BOOLEAN : FreeIn(f, x[1], x[2])}}
Edited(f) == {[f EXCEPT ![i].ver = @ + 1] : i \in {i \in DOMAIN f : ~f[i].dir}}
MovedAway(f) ==
    UNION {{[f EXCEPT ![i].parent = x[1], ![i].name = x[2]] :
                x \in {x \in (Folders(f) \ ({i} \cup Under(f, i))) \X Names : FreeIn(f, x[1], x[2])}} :
           i \in DOMAIN f}
Deleted(f) == {Pruned(f, i) : i \in DOMAIN f}
After(f) == Created(f) \cup Edited(f) \cup MovedAway(f) \cup Deleted(f)
Changed(base, n) ==
    LET after[k \in 0..n] ==
            IF k = 0 THEN {base}
            ELSE LET before == after[k - 1] IN before \cup UNION {After(f) : f \in before}
    IN  after[n]

\* What is left out of the run, and found by hand to break TreeIsTheSnapshot (README):
\* a folder takes the place of one that was deleted or moved away,
Where(f, i) == <<f[i].parent, f[i].name>>
Moved(b, f) == {i \in DOMAIN b \cap DOMAIN f : Where(f, i) # Where(b, i)}
New(b, f) == DOMAIN f \ DOMAIN b
Gone(b, f) == DOMAIN b \ DOMAIN f
TakesAFreedPlace(b, f) ==
    \E i \in New(b, f) \cup Moved(b, f), j \in Gone(b, f) \cup Moved(b, f) :
        i # j /\ f[i].dir /\ b[j].dir /\ PathIn(f, i) = PathIn(b, j)

\* a file is deleted below a moved folder, in a folder that stayed in it, which only
\* an empty tree cannot find,
DeletedBelowAMove(b, f) ==
    \E i \in Gone(b, f), j \in Moved(b, f) :
        ~b[i].dir /\ i \in Under(b, j) /\ b[i].parent # j

\* or what moved in a cycle that propagated nothing is back, or gone, in the next one.
Undone(b, f, g) == Moved(b, f) \ Moved(b, g) # {}

\* Two new files at one path of a snapshot.
TwinStarts ==
    {(5 :> x) @@ (7 :> x) @@ Base :
        x \in {[parent |-> p, name |-> 3, dir |-> FALSE, ver |-> 0] : p \in Folders(Base)}}

\* The first cycle, with an empty tree, and the next one, with the nodes of the last:
\* the database holds the base tree, or what the first cycle propagated.
QuietFirst ==
    TwinStarts \cup {f \in Changed(Base, FirstChanges) :
                        ~TakesAFreedPlace(Base, f) /\ ~DeletedBelowAMove(Base, f)}
QuietNext(b, f) ==
    LET n == IF f = Base THEN AloneChanges ELSE IF f \in Changed(Base, 1) THEN NextChanges ELSE 0
    IN  {g \in Changed(f, n) : ~TakesAFreedPlace(b, g) /\ ~Undone(b, f, g)}
=============================================================================
