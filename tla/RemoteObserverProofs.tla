------------------------ MODULE RemoteObserverProofs ------------------------
(***************************************************************************)
(* Proofs about RemoteObserver, for every drive, whatever its users do,    *)
(* whatever fails and whichever races are let happen.                      *)
(***************************************************************************)
EXTENDS RemoteObserver, SequenceTheorems, TLAPS

USE ObserverAssumption DEF ObserverAssumption

\* ChildrenAreInverse of a snapshot s, so that it can be said of the result of
\* an operation on it.
IsTree(s) ==
    /\ s \in Snapshots
    /\ \A d \in Folders : s.children[d] = {i \in Items : s.parent[i] = d}
    /\ \A i \in Items : s.parent[i] \in Items => s.parent[i] \in Known(s)

\* The invariant of the tree is the property ChildrenAreInverse, with the type.
LEMMA TreeIsInverse == snap \in Snapshots => (ChildrenAreInverse <=> IsTree(snap))
  BY DEF ChildrenAreInverse, IsTree
-----------------------------------------------------------------------------
(* The operations of the snapshot.                                          *)

LEMMA EmptyIsTree == IsTree(EmptySnapshot)
<1>1. EmptySnapshot \in Snapshots
  BY DEF EmptySnapshot, Snapshots
<1>2. \A d \in Folders : EmptySnapshot.children[d] = {i \in Items : EmptySnapshot.parent[i] = d}
  BY DEF EmptySnapshot, Absent, Folders
<1>3. \A i \in Items : EmptySnapshot.parent[i] \notin Items
  BY DEF EmptySnapshot, Absent, Folders
<1> QED
  BY <1>1, <1>2, <1>3 DEF IsTree

\* updateItem keeps the tree, whether the parent is known or created.
LEMMA UpdateKeepsTree ==
  ASSUME NEW s, IsTree(s), NEW i \in Items, NEW p \in Folders
  PROVE  /\ IsTree(UpdateItem(s, i, p))
         /\ i \in Known(UpdateItem(s, i, p))
<1>0. /\ s \in Snapshots
      /\ s.parent \in [Items -> Folders \cup {Absent, Unknown}]
      /\ s.children \in [Folders -> SUBSET Items]
      /\ Absent \notin Folders /\ Unknown \notin Folders /\ Absent # Unknown
  BY DEF IsTree, Snapshots, Absent, Unknown, Folders, Away
<1>1. CASE s.parent[i] = p
  BY <1>0, <1>1 DEF UpdateItem, Known
<1>2. CASE s.parent[i] # p
  <2> DEFINE t == UpdateItem(s, i, p)
  <2>1. t = [parent |-> [j \in Items |-> IF j = i THEN p
                                       ELSE IF j = p /\ s.parent[j] = Absent THEN Unknown
                                       ELSE s.parent[j]],
             children |-> [d \in Folders |-> IF d = p THEN s.children[d] \cup {i}
                                           ELSE IF d = s.parent[i] THEN s.children[d] \ {i}
                                           ELSE s.children[d]]]
    BY <1>2 DEF UpdateItem
  <2>2. /\ t.parent[i] = p
        /\ \A j \in Items \ {i} :
              t.parent[j] = IF j = p /\ s.parent[j] = Absent THEN Unknown ELSE s.parent[j]
    BY <2>1
  <2>3. \A d \in Folders : t.children[d] = IF d = p THEN s.children[d] \cup {i}
                                           ELSE IF d = s.parent[i] THEN s.children[d] \ {i}
                                           ELSE s.children[d]
    BY <2>1
  <2>4. t \in Snapshots
    <3>1. t.parent \in [Items -> Folders \cup {Absent, Unknown}]
      BY <2>1, <2>2, <1>0
    <3>2. t.children \in [Folders -> SUBSET Items]
      BY <2>1, <2>3, <1>0
    <3> QED
      BY <2>1, <3>1, <3>2 DEF Snapshots
  <2>5. ASSUME NEW d \in Folders PROVE t.children[d] = {j \in Items : t.parent[j] = d}
    <3>1. /\ s.children[d] \subseteq Items
          /\ \A j \in Items : j \in s.children[d] <=> s.parent[j] = d
      BY DEF IsTree
    <3>2. \A j \in Items \ {i} : t.parent[j] = d <=> s.parent[j] = d
      BY <2>2, <1>0
    <3>3. t.parent[i] = d <=> d = p
      BY <2>2
    <3> HIDE DEF t
    <3>a. t.children[d] = IF d = p THEN s.children[d] \cup {i}
                          ELSE IF d = s.parent[i] THEN s.children[d] \ {i}
                          ELSE s.children[d]
      BY <2>3
    <3>4. ASSUME NEW j \in Items PROVE j \in t.children[d] <=> t.parent[j] = d
      <4>1. CASE j = i
        BY <3>1, <3>3, <3>a, <4>1, <1>2
      <4>2. CASE j # i
        BY <3>1, <3>2, <3>a, <4>2
      <4> QED
        BY <4>1, <4>2
    <3>5. t.children[d] \subseteq Items
      BY <3>1, <3>a
    <3> QED
      BY <3>4, <3>5
  <2>6. ASSUME NEW j \in Items, t.parent[j] \in Items PROVE t.parent[j] \in Known(t)
    <3>1. \A k \in Known(s) : k \in Known(t)
      BY <2>2, <1>0 DEF Known
    <3>2. p \in Items => p \in Known(t)
      BY <2>2, <1>0 DEF Known
    <3>3. CASE j = i
      BY <3>2, <3>3, <2>2, <2>6
    <3>4. CASE j # i
      BY <3>1, <3>4, <2>2, <2>6, <1>0 DEF IsTree, Folders
    <3> QED
      BY <3>3, <3>4
  <2>7. i \in Known(t)
    BY <2>2, <1>0 DEF Known
  <2> QED
    BY <2>4, <2>5, <2>6, <2>7 DEF IsTree
<1> QED
  BY <1>1, <1>2

\* What is removed takes its children along.
LEMMA RemovalKeepsTree ==
  ASSUME NEW s, IsTree(s), NEW gone \in SUBSET Items,
         \A d \in gone : s.children[d] \subseteq gone
  PROVE  IsTree(RemoveAll(s, gone))
<1> DEFINE t == RemoveAll(s, gone)
<1>0. /\ s.parent \in [Items -> Folders \cup {Absent, Unknown}]
      /\ s.children \in [Folders -> SUBSET Items]
      /\ Absent \notin Folders
  BY DEF IsTree, Snapshots, Absent, Folders
<1>1. \A j \in Items : t.parent[j] = IF j \in gone THEN Absent ELSE s.parent[j]
  BY DEF RemoveAll
<1>2. \A d \in Folders : t.children[d] = IF d \in gone THEN {} ELSE s.children[d] \ gone
  BY DEF RemoveAll
<1>3. t \in Snapshots
  <2>1. [j \in Items |-> IF j \in gone THEN Absent ELSE s.parent[j]]
            \in [Items -> Folders \cup {Absent, Unknown}]
    BY <1>0
  <2>2. [d \in Folders |-> IF d \in gone THEN {} ELSE s.children[d] \ gone]
            \in [Folders -> SUBSET Items]
    BY <1>0
  <2> QED
    BY <2>1, <2>2 DEF RemoveAll, Snapshots
<1>4. ASSUME NEW d \in Folders PROVE t.children[d] = {j \in Items : t.parent[j] = d}
  <2>1. /\ s.children[d] \subseteq Items
        /\ \A j \in Items : j \in s.children[d] <=> s.parent[j] = d
    BY DEF IsTree
  <2>2. d \in gone => s.children[d] \subseteq gone
    OBVIOUS
  <2> HIDE DEF t
  <2>a. t.children[d] = IF d \in gone THEN {} ELSE s.children[d] \ gone
    BY <1>2
  <2>3. ASSUME NEW j \in Items PROVE j \in t.children[d] <=> t.parent[j] = d
    <3>1. CASE d \in gone
      BY <2>1, <2>2, <2>a, <3>1, <1>0, <1>1
    <3>2. CASE d \notin gone
      BY <2>1, <2>a, <3>2, <1>0, <1>1
    <3> QED
      BY <3>1, <3>2
  <2>4. t.children[d] \subseteq Items
    BY <2>1, <2>a
  <2> QED
    BY <2>3, <2>4
<1>5. ASSUME NEW j \in Items, t.parent[j] \in Items PROVE t.parent[j] \in Known(t)
  <2>1. j \notin gone /\ t.parent[j] = s.parent[j] /\ s.parent[j] \in Items
    BY <1>1, <1>5, <1>0 DEF Folders
  <2>2. s.parent[j] \in Known(s) /\ j \in s.children[s.parent[j]]
    BY <2>1 DEF IsTree, Folders
  <2>3. s.parent[j] \notin gone
    BY <2>1, <2>2
  <2> QED
    BY <2>1, <2>2, <2>3, <1>1 DEF Known
<1> QED
  BY <1>3, <1>4, <1>5 DEF IsTree

\* removeItem keeps the tree: what the lists reach takes its children along.
LEMMA RemoveItemKeepsTree ==
  ASSUME NEW s, IsTree(s), NEW i \in Items
  PROVE  IsTree(RemoveItem(s, i))
<1>1. CASE i \notin Known(s)
  BY <1>1 DEF RemoveItem
<1>2. CASE i \in Known(s)
  <2> DEFINE gone == {i} \cup Below(s, i)
  <2>0. gone \in SUBSET Items /\ s.children \in [Folders -> SUBSET Items] /\ Items \subseteq Folders
    BY DEF Below, IsTree, Snapshots, Folders
  <2>1. s.children[i] \subseteq Below(s, i)
    BY <2>0 DEF Below
  <2>2. ASSUME NEW d \in Below(s, i), NEW c \in s.children[d] PROVE c \in Below(s, i)
    <3>1. d \in Items /\ c \in Items
      BY <2>0 DEF Below
    <3>2. ASSUME NEW T \in SUBSET Items, s.children[i] \subseteq T,
                 \A k \in T : s.children[k] \subseteq T
          PROVE  c \in T
      <4>1. d \in T
        BY <3>2 DEF Below
      <4> QED
        BY <4>1, <3>2
    <3> QED
      BY <3>1, <3>2 DEF Below
  <2>3. \A d \in gone : s.children[d] \subseteq gone
    BY <2>1, <2>2
  <2>4. IsTree(RemoveAll(s, gone))
    BY <2>0, <2>3, RemovalKeepsTree
  <2> QED
    BY <2>4, <1>2 DEF RemoveItem
<1> QED
  BY <1>1, <1>2

\* A child of an orphan is an orphan.
LEMMA RemoveOrphansKeepsTree ==
  ASSUME NEW s, IsTree(s)
  PROVE  IsTree(RemoveOrphans(s))
<1> DEFINE gone == {i \in Known(s) : Orphan(s, i)}
<1>0. gone \in SUBSET Items /\ Absent \notin Folders /\ Items \subseteq Folders
  BY DEF Known, Absent, Folders
<1>1. ASSUME NEW d \in gone, NEW c \in s.children[d] PROVE c \in gone
  <2>1. c \in Items /\ s.parent[c] = d
    BY <1>0 DEF IsTree
  <2>2. c \in Known(s)
    BY <2>1, <1>0 DEF Known
  <2>3. PICK T \in SUBSET Items : d \in T /\ \A k \in T : s.parent[k] \in T \cup {Absent, Unknown}
    BY DEF Orphan
  <2>4. T \cup {c} \in SUBSET Items
    BY <2>1
  <2>5. \A k \in T \cup {c} : s.parent[k] \in (T \cup {c}) \cup {Absent, Unknown}
    BY <2>1, <2>3
  <2>6. Orphan(s, c)
    BY <2>4, <2>5 DEF Orphan
  <2> QED
    BY <2>2, <2>6
<1>2. \A d \in gone : s.children[d] \subseteq gone
  BY <1>1
<1>3. IsTree(RemoveAll(s, gone))
  BY <1>0, <1>2, RemovalKeepsTree
<1> QED
  BY <1>3 DEF RemoveOrphans

\* What is inside a folder has its parent inside the folder, or the folder itself.
LEMMA InsideHasParents ==
  ASSUME place \in [Items -> Folders \cup {Away}], NEW d \in Folders, NEW j \in Inside(d)
  PROVE  /\ j \in Items /\ place[j] \in Folders
         /\ place[j] = d \/ place[j] \in Inside(d)
<1>0. j \in Items \ {d} /\ Root \notin Items /\ Away \notin Folders
  BY DEF Inside, Folders
<1>1. \A T \in SUBSET (Items \ {d}) :
          j \in T => \E k \in T : place[k] \notin T \cup ({Root, Away} \ {d})
  BY DEF Inside
<1>2. place[j] \notin {j} \cup ({Root, Away} \ {d})
  <2>1. {j} \in SUBSET (Items \ {d})
    BY <1>0
  <2> QED
    BY <2>1, <1>1
<1>3. place[j] \in Folders
  BY <1>0, <1>2
<1>4. CASE place[j] # d
  <2> DEFINE q == place[j]
  <2>1. q \in Items \ {d}
    BY <1>2, <1>3, <1>4 DEF Folders
  <2>2. ASSUME NEW T \in SUBSET (Items \ {d}), q \in T,
               \A k \in T : place[k] \in T \cup ({Root, Away} \ {d})
        PROVE  FALSE
    <3>1. T \cup {j} \in SUBSET (Items \ {d})
      BY <1>0
    <3>2. \A k \in T \cup {j} : place[k] \in (T \cup {j}) \cup ({Root, Away} \ {d})
      BY <2>2
    <3> QED
      BY <3>1, <3>2, <1>1
  <2> QED
    BY <2>1, <2>2, <1>0, <1>3 DEF Inside
<1> QED
  BY <1>0, <1>3, <1>4

\* A listing keeps the tree: what it returns comes with its parents.
LEMMA ListKeepsTree ==
  ASSUME NEW s, IsTree(s), place \in [Items -> Folders \cup {Away}],
         NEW d \in Folders, d \in Items => d \in Known(s)
  PROVE  IsTree(ListInto(s, Inside(d)))
<1> DEFINE list == Inside(d)
           t == ListInto(s, list)
<1>0. /\ s.parent \in [Items -> Folders \cup {Absent, Unknown}]
      /\ s.children \in [Folders -> SUBSET Items]
      /\ Absent \notin Folders /\ list \subseteq Items
  BY DEF IsTree, Snapshots, Absent, Folders, Inside
<1>1. \A j \in list : place[j] \in Folders /\ (place[j] = d \/ place[j] \in list)
  BY InsideHasParents
<1>2. \A j \in Items : t.parent[j] = IF j \in list THEN place[j] ELSE s.parent[j]
  BY DEF ListInto
<1>3. \A f \in Folders : t.children[f] = (s.children[f] \ list) \cup {j \in list : place[j] = f}
  BY DEF ListInto
<1>4. t \in Snapshots
  <2>1. [j \in Items |-> IF j \in list THEN place[j] ELSE s.parent[j]]
            \in [Items -> Folders \cup {Absent, Unknown}]
    BY <1>0, <1>1
  <2>2. [f \in Folders |-> (s.children[f] \ list) \cup {j \in list : place[j] = f}]
            \in [Folders -> SUBSET Items]
    BY <1>0
  <2> QED
    BY <2>1, <2>2 DEF ListInto, Snapshots
<1>5. ASSUME NEW f \in Folders PROVE t.children[f] = {j \in Items : t.parent[j] = f}
  <2>1. s.children[f] = {j \in Items : s.parent[j] = f}
    BY DEF IsTree
  <2> QED
    BY <2>1, <1>0, <1>2, <1>3
<1>6. ASSUME NEW j \in Items, t.parent[j] \in Items PROVE t.parent[j] \in Known(t)
  <2>1. \A k \in Items : k \in Known(s) \/ k \in list => k \in Known(t)
    BY <1>0, <1>1, <1>2 DEF Known
  <2>2. CASE j \in list
    BY <2>1, <2>2, <1>1, <1>2, <1>6
  <2>3. CASE j \notin list
    BY <2>1, <2>3, <1>2, <1>6 DEF IsTree
  <2> QED
    BY <2>2, <2>3
<1> QED
  BY <1>4, <1>5, <1>6 DEF IsTree
-----------------------------------------------------------------------------
(***************************************************************************)
(* The inductive invariant is the type with the tree: what an action       *)
(* removes is found by the children lists, so that neither holds alone.    *)
(***************************************************************************)
Inv == TypeOK /\ IsTree(snap)

\* Whatever goes wrong is counted within the bound.
LEMMA FaultBounded ==
  ASSUME NEW k, TypeOK, Fault(k)
  PROVE  faults' \in 0 .. MaxFaults
  BY DEF Fault, TypeOK

\* Action DriveIn keeps the invariant.
LEMMA DriveInKeeps ==
  ASSUME Inv, NEW c \in InCodes, NEW i \in Items, NEW p \in Folders, DriveIn(c, i, p)
  PROVE  Inv'
<1>0. TypeOK /\ IsTree(snap)
  BY DEF Inv
<1>1. place' \in [Items -> Folders \cup {Away}] /\ log' \in Seq(Actions) /\ Len(log') >= Len(log)
  <2>1. log' = log \o <<Action(c, i, p)>> /\ log \in Seq(Actions) /\ place \in [Items -> Folders \cup {Away}]
    BY <1>0 DEF DriveIn, Logs, TypeOK
  <2>3. <<Action(c, i, p)>> \in Seq(Actions)
    BY <1>0 DEF Action, Actions, Codes, InCodes, OutCodes
  <2>4. place' \in [Items -> Folders \cup {Away}]
    BY <2>1 DEF DriveIn, driveVars
  <2> QED
    BY <2>1, <2>3, <2>4, ConcatProperties, LenProperties
<1>2. IsTree(snap')
  BY <1>0 DEF DriveIn, snapVars
<1>3. valid' \in BOOLEAN
  BY <1>0 DEF DriveIn, workVars, snapVars, restVars, TypeOK
<1>4. pc' \in Stages
  BY <1>0 DEF DriveIn, Stages, TypeOK
<1>5. updating' \in BOOLEAN
  BY <1>0 DEF DriveIn, workVars, snapVars, restVars, TypeOK
<1>6. cursor' \in NoCursor .. Len(log') /\ stored' \in NoCursor .. Len(log')
  BY <1>0, <1>1, LenProperties DEF DriveIn, driveVars, workVars, NoCursor, TypeOK
<1>7. page' \in Seq(Actions)
  BY <1>0 DEF DriveIn, workVars, snapVars, restVars, TypeOK
<1>8. moved' \subseteq Items /\ more' \in BOOLEAN
  BY <1>0 DEF DriveIn, workVars, snapVars, restVars, TypeOK
<1>9. stopAsked' \in BOOLEAN /\ cycle' \in BOOLEAN
  BY <1>0 DEF DriveIn, workVars, snapVars, restVars, TypeOK
<1>10. db' \subseteq Items /\ toInit' \in BOOLEAN
  BY <1>0 DEF DriveIn, workVars, snapVars, restVars, TypeOK
<1>11. faults' \in 0 .. MaxFaults
  BY <1>0, FaultBounded DEF DriveIn, TypeOK
<1> QED
  BY <1>1, <1>2, <1>3, <1>4, <1>5, <1>6, <1>7, <1>8, <1>9, <1>10, <1>11 DEF Inv, TypeOK, IsTree

\* Action DriveOut keeps the invariant.
LEMMA DriveOutKeeps ==
  ASSUME Inv, NEW c \in OutCodes, NEW i \in Items, DriveOut(c, i)
  PROVE  Inv'
<1>0. TypeOK /\ IsTree(snap)
  BY DEF Inv
<1>1. place' \in [Items -> Folders \cup {Away}] /\ log' \in Seq(Actions) /\ Len(log') >= Len(log)
  <2>1. log' = log \o <<Action(c, i, place[i])>> /\ log \in Seq(Actions) /\ place \in [Items -> Folders \cup {Away}]
    BY <1>0 DEF DriveOut, Logs, TypeOK
  <2>2. place[i] \in Folders
    BY <1>0, InsideHasParents DEF DriveOut, OnDrive, TypeOK, Folders
  <2>3. <<Action(c, i, place[i])>> \in Seq(Actions)
    BY <2>2 DEF Action, Actions, Codes, InCodes, OutCodes
  <2>4. place' \in [Items -> Folders \cup {Away}]
    BY <2>1 DEF DriveOut, driveVars
  <2> QED
    BY <2>1, <2>3, <2>4, ConcatProperties, LenProperties
<1>2. IsTree(snap')
  BY <1>0 DEF DriveOut, snapVars
<1>3. valid' \in BOOLEAN
  BY <1>0 DEF DriveOut, workVars, snapVars, restVars, TypeOK
<1>4. pc' \in Stages
  BY <1>0 DEF DriveOut, Stages, TypeOK
<1>5. updating' \in BOOLEAN
  BY <1>0 DEF DriveOut, workVars, snapVars, restVars, TypeOK
<1>6. cursor' \in NoCursor .. Len(log') /\ stored' \in NoCursor .. Len(log')
  BY <1>0, <1>1, LenProperties DEF DriveOut, driveVars, workVars, NoCursor, TypeOK
<1>7. page' \in Seq(Actions)
  BY <1>0 DEF DriveOut, workVars, snapVars, restVars, TypeOK
<1>8. moved' \subseteq Items /\ more' \in BOOLEAN
  BY <1>0 DEF DriveOut, workVars, snapVars, restVars, TypeOK
<1>9. stopAsked' \in BOOLEAN /\ cycle' \in BOOLEAN
  BY <1>0 DEF DriveOut, workVars, snapVars, restVars, TypeOK
<1>10. db' \subseteq Items /\ toInit' \in BOOLEAN
  BY <1>0 DEF DriveOut, workVars, snapVars, restVars, TypeOK
<1>11. faults' \in 0 .. MaxFaults
  BY <1>0, FaultBounded DEF DriveOut, TypeOK
<1> QED
  BY <1>1, <1>2, <1>3, <1>4, <1>5, <1>6, <1>7, <1>8, <1>9, <1>10, <1>11 DEF Inv, TypeOK, IsTree

\* Action DriveMove keeps the invariant.
LEMMA DriveMoveKeeps ==
  ASSUME Inv, NEW i \in Items, NEW p \in Folders, DriveMove(i, p)
  PROVE  Inv'
<1>0. TypeOK /\ IsTree(snap)
  BY DEF Inv
<1>1. place' \in [Items -> Folders \cup {Away}] /\ log' \in Seq(Actions) /\ Len(log') >= Len(log)
  <2>1. log' = log \o <<Action("moveIn", i, p), Action("moveOut", i, place[i])>> /\ log \in Seq(Actions) /\ place \in [Items -> Folders \cup {Away}]
    BY <1>0 DEF DriveMove, Logs, TypeOK
  <2>2. place[i] \in Folders
    BY <1>0, InsideHasParents DEF DriveMove, OnDrive, TypeOK, Folders
  <2>3. <<Action("moveIn", i, p), Action("moveOut", i, place[i])>> \in Seq(Actions)
    BY <2>2 DEF Action, Actions, Codes, InCodes, OutCodes
  <2>4. place' \in [Items -> Folders \cup {Away}]
    BY <2>1 DEF DriveMove, driveVars
  <2> QED
    BY <2>1, <2>3, <2>4, ConcatProperties, LenProperties
<1>2. IsTree(snap')
  BY <1>0 DEF DriveMove, snapVars
<1>3. valid' \in BOOLEAN
  BY <1>0 DEF DriveMove, workVars, snapVars, restVars, TypeOK
<1>4. pc' \in Stages
  BY <1>0 DEF DriveMove, Stages, TypeOK
<1>5. updating' \in BOOLEAN
  BY <1>0 DEF DriveMove, workVars, snapVars, restVars, TypeOK
<1>6. cursor' \in NoCursor .. Len(log') /\ stored' \in NoCursor .. Len(log')
  BY <1>0, <1>1, LenProperties DEF DriveMove, driveVars, workVars, NoCursor, TypeOK
<1>7. page' \in Seq(Actions)
  BY <1>0 DEF DriveMove, workVars, snapVars, restVars, TypeOK
<1>8. moved' \subseteq Items /\ more' \in BOOLEAN
  BY <1>0 DEF DriveMove, workVars, snapVars, restVars, TypeOK
<1>9. stopAsked' \in BOOLEAN /\ cycle' \in BOOLEAN
  BY <1>0 DEF DriveMove, workVars, snapVars, restVars, TypeOK
<1>10. db' \subseteq Items /\ toInit' \in BOOLEAN
  BY <1>0 DEF DriveMove, workVars, snapVars, restVars, TypeOK
<1>11. faults' \in 0 .. MaxFaults
  BY <1>0, FaultBounded DEF DriveMove, TypeOK
<1> QED
  BY <1>1, <1>2, <1>3, <1>4, <1>5, <1>6, <1>7, <1>8, <1>9, <1>10, <1>11 DEF Inv, TypeOK, IsTree

\* Action DriveEdit keeps the invariant.
LEMMA DriveEditKeeps ==
  ASSUME Inv, NEW i \in Items, DriveEdit(i)
  PROVE  Inv'
<1>0. TypeOK /\ IsTree(snap)
  BY DEF Inv
<1>1. place' \in [Items -> Folders \cup {Away}] /\ log' \in Seq(Actions) /\ Len(log') >= Len(log)
  <2>1. log' = log \o <<Action("edit", i, place[i])>> /\ log \in Seq(Actions) /\ place \in [Items -> Folders \cup {Away}]
    BY <1>0 DEF DriveEdit, Logs, TypeOK
  <2>2. place[i] \in Folders
    BY <1>0, InsideHasParents DEF DriveEdit, OnDrive, TypeOK, Folders
  <2>3. <<Action("edit", i, place[i])>> \in Seq(Actions)
    BY <2>2 DEF Action, Actions, Codes, InCodes, OutCodes
  <2>4. place' \in [Items -> Folders \cup {Away}]
    BY <2>1 DEF DriveEdit, driveVars
  <2> QED
    BY <2>1, <2>3, <2>4, ConcatProperties, LenProperties
<1>2. IsTree(snap')
  BY <1>0 DEF DriveEdit, snapVars
<1>3. valid' \in BOOLEAN
  BY <1>0 DEF DriveEdit, workVars, snapVars, restVars, TypeOK
<1>4. pc' \in Stages
  BY <1>0 DEF DriveEdit, Stages, TypeOK
<1>5. updating' \in BOOLEAN
  BY <1>0 DEF DriveEdit, workVars, snapVars, restVars, TypeOK
<1>6. cursor' \in NoCursor .. Len(log') /\ stored' \in NoCursor .. Len(log')
  BY <1>0, <1>1, LenProperties DEF DriveEdit, driveVars, workVars, NoCursor, TypeOK
<1>7. page' \in Seq(Actions)
  BY <1>0 DEF DriveEdit, workVars, snapVars, restVars, TypeOK
<1>8. moved' \subseteq Items /\ more' \in BOOLEAN
  BY <1>0 DEF DriveEdit, workVars, snapVars, restVars, TypeOK
<1>9. stopAsked' \in BOOLEAN /\ cycle' \in BOOLEAN
  BY <1>0 DEF DriveEdit, workVars, snapVars, restVars, TypeOK
<1>10. db' \subseteq Items /\ toInit' \in BOOLEAN
  BY <1>0 DEF DriveEdit, workVars, snapVars, restVars, TypeOK
<1>11. faults' \in 0 .. MaxFaults
  BY <1>0, FaultBounded DEF DriveEdit, TypeOK
<1> QED
  BY <1>1, <1>2, <1>3, <1>4, <1>5, <1>6, <1>7, <1>8, <1>9, <1>10, <1>11 DEF Inv, TypeOK, IsTree

\* Action LoopTop keeps the invariant.
LEMMA LoopTopKeeps ==
  ASSUME Inv, LoopTop
  PROVE  Inv'
<1>0. TypeOK /\ IsTree(snap)
  BY DEF Inv
<1>1. place' \in [Items -> Folders \cup {Away}] /\ log' \in Seq(Actions) /\ Len(log') >= Len(log)
  BY <1>0, LenProperties DEF LoopTop, Invalidate, driveVars, TypeOK
<1>2. IsTree(snap')
  BY <1>0, EmptyIsTree DEF LoopTop, Invalidate, snapVars, driveVars
<1>3. valid' \in BOOLEAN
  BY <1>0 DEF LoopTop, Invalidate, workVars, snapVars, restVars, TypeOK
<1>4. pc' \in Stages
  BY <1>0 DEF LoopTop, Invalidate, Stages, TypeOK
<1>5. updating' \in BOOLEAN
  BY <1>0 DEF LoopTop, Invalidate, workVars, snapVars, restVars, TypeOK
<1>6. cursor' \in NoCursor .. Len(log') /\ stored' \in NoCursor .. Len(log')
  BY <1>0, <1>1, LenProperties DEF LoopTop, Invalidate, driveVars, workVars, NoCursor, TypeOK
<1>7. page' \in Seq(Actions)
  BY <1>0 DEF LoopTop, Invalidate, workVars, snapVars, restVars, TypeOK
<1>8. moved' \subseteq Items /\ more' \in BOOLEAN
  BY <1>0 DEF LoopTop, Invalidate, workVars, snapVars, restVars, TypeOK
<1>9. stopAsked' \in BOOLEAN /\ cycle' \in BOOLEAN
  BY <1>0 DEF LoopTop, Invalidate, workVars, snapVars, restVars, TypeOK
<1>10. db' \subseteq Items /\ toInit' \in BOOLEAN
  BY <1>0 DEF LoopTop, Invalidate, workVars, snapVars, restVars, TypeOK
<1>11. faults' \in 0 .. MaxFaults
  BY <1>0, FaultBounded DEF LoopTop, Invalidate, TypeOK
<1> QED
  BY <1>1, <1>2, <1>3, <1>4, <1>5, <1>6, <1>7, <1>8, <1>9, <1>10, <1>11 DEF Inv, TypeOK, IsTree

\* Action ListAnswered keeps the invariant.
LEMMA ListAnsweredKeeps ==
  ASSUME Inv, ListAnswered
  PROVE  Inv'
<1>0. TypeOK /\ IsTree(snap)
  BY DEF Inv
<1>1. place' \in [Items -> Folders \cup {Away}] /\ log' \in Seq(Actions) /\ Len(log') >= Len(log)
  BY <1>0, LenProperties DEF ListAnswered, driveVars, TypeOK
<1>2. IsTree(snap')
  <2>1. snap' = RemoveOrphans(ListInto(snap, Inside(Root)))
    BY DEF ListAnswered
  <2>2. IsTree(ListInto(snap, Inside(Root)))
    BY <1>0, ListKeepsTree DEF TypeOK, Folders
  <2> QED
    BY <2>1, <2>2, RemoveOrphansKeepsTree
<1>3. valid' \in BOOLEAN
  BY <1>0 DEF ListAnswered, workVars, snapVars, restVars, TypeOK
<1>4. pc' \in Stages
  BY <1>0 DEF ListAnswered, Stages, TypeOK
<1>5. updating' \in BOOLEAN
  BY <1>0 DEF ListAnswered, workVars, snapVars, restVars, TypeOK
<1>6. cursor' \in NoCursor .. Len(log') /\ stored' \in NoCursor .. Len(log')
  BY <1>0, <1>1, LenProperties DEF ListAnswered, driveVars, workVars, NoCursor, TypeOK
<1>7. page' \in Seq(Actions)
  BY <1>0 DEF ListAnswered, workVars, snapVars, restVars, TypeOK
<1>8. moved' \subseteq Items /\ more' \in BOOLEAN
  BY <1>0 DEF ListAnswered, workVars, snapVars, restVars, TypeOK
<1>9. stopAsked' \in BOOLEAN /\ cycle' \in BOOLEAN
  BY <1>0 DEF ListAnswered, workVars, snapVars, restVars, TypeOK
<1>10. db' \subseteq Items /\ toInit' \in BOOLEAN
  BY <1>0 DEF ListAnswered, workVars, snapVars, restVars, TypeOK
<1>11. faults' \in 0 .. MaxFaults
  BY <1>0, FaultBounded DEF ListAnswered, TypeOK
<1> QED
  BY <1>1, <1>2, <1>3, <1>4, <1>5, <1>6, <1>7, <1>8, <1>9, <1>10, <1>11 DEF Inv, TypeOK, IsTree

\* Action ListFails keeps the invariant.
LEMMA ListFailsKeeps ==
  ASSUME Inv, ListFails
  PROVE  Inv'
<1>0. TypeOK /\ IsTree(snap)
  BY DEF Inv
<1>1. place' \in [Items -> Folders \cup {Away}] /\ log' \in Seq(Actions) /\ Len(log') >= Len(log)
  BY <1>0, LenProperties DEF ListFails, driveVars, TypeOK
<1>2. IsTree(snap')
  BY <1>0 DEF ListFails, snapVars
<1>3. valid' \in BOOLEAN
  BY <1>0 DEF ListFails, workVars, snapVars, restVars, TypeOK
<1>4. pc' \in Stages
  BY <1>0 DEF ListFails, Stages, TypeOK
<1>5. updating' \in BOOLEAN
  BY <1>0 DEF ListFails, workVars, snapVars, restVars, TypeOK
<1>6. cursor' \in NoCursor .. Len(log') /\ stored' \in NoCursor .. Len(log')
  BY <1>0, <1>1, LenProperties DEF ListFails, driveVars, workVars, NoCursor, TypeOK
<1>7. page' \in Seq(Actions)
  BY <1>0 DEF ListFails, workVars, snapVars, restVars, TypeOK
<1>8. moved' \subseteq Items /\ more' \in BOOLEAN
  BY <1>0 DEF ListFails, workVars, snapVars, restVars, TypeOK
<1>9. stopAsked' \in BOOLEAN /\ cycle' \in BOOLEAN
  BY <1>0 DEF ListFails, workVars, snapVars, restVars, TypeOK
<1>10. db' \subseteq Items /\ toInit' \in BOOLEAN
  BY <1>0 DEF ListFails, workVars, snapVars, restVars, TypeOK
<1>11. faults' \in 0 .. MaxFaults
  BY <1>0, FaultBounded DEF ListFails, TypeOK
<1> QED
  BY <1>1, <1>2, <1>3, <1>4, <1>5, <1>6, <1>7, <1>8, <1>9, <1>10, <1>11 DEF Inv, TypeOK, IsTree

\* Action SetValid keeps the invariant.
LEMMA SetValidKeeps ==
  ASSUME Inv, SetValid
  PROVE  Inv'
<1>0. TypeOK /\ IsTree(snap)
  BY DEF Inv
<1>1. place' \in [Items -> Folders \cup {Away}] /\ log' \in Seq(Actions) /\ Len(log') >= Len(log)
  BY <1>0, LenProperties DEF SetValid, driveVars, TypeOK
<1>2. IsTree(snap')
  BY <1>0 DEF SetValid, snapVars
<1>3. valid' \in BOOLEAN
  BY <1>0 DEF SetValid, workVars, snapVars, restVars, TypeOK
<1>4. pc' \in Stages
  BY <1>0 DEF SetValid, Stages, TypeOK
<1>5. updating' \in BOOLEAN
  BY <1>0 DEF SetValid, workVars, snapVars, restVars, TypeOK
<1>6. cursor' \in NoCursor .. Len(log') /\ stored' \in NoCursor .. Len(log')
  BY <1>0, <1>1, LenProperties DEF SetValid, driveVars, workVars, NoCursor, TypeOK
<1>7. page' \in Seq(Actions)
  BY <1>0 DEF SetValid, workVars, snapVars, restVars, TypeOK
<1>8. moved' \subseteq Items /\ more' \in BOOLEAN
  BY <1>0 DEF SetValid, workVars, snapVars, restVars, TypeOK
<1>9. stopAsked' \in BOOLEAN /\ cycle' \in BOOLEAN
  BY <1>0 DEF SetValid, workVars, snapVars, restVars, TypeOK
<1>10. db' \subseteq Items /\ toInit' \in BOOLEAN
  BY <1>0 DEF SetValid, workVars, snapVars, restVars, TypeOK
<1>11. faults' \in 0 .. MaxFaults
  BY <1>0, FaultBounded DEF SetValid, TypeOK
<1> QED
  BY <1>1, <1>2, <1>3, <1>4, <1>5, <1>6, <1>7, <1>8, <1>9, <1>10, <1>11 DEF Inv, TypeOK, IsTree

\* Action ReadCursor keeps the invariant.
LEMMA ReadCursorKeeps ==
  ASSUME Inv, ReadCursor
  PROVE  Inv'
<1>0. TypeOK /\ IsTree(snap)
  BY DEF Inv
<1>1. place' \in [Items -> Folders \cup {Away}] /\ log' \in Seq(Actions) /\ Len(log') >= Len(log)
  BY <1>0, LenProperties DEF ReadCursor, ListingCursor, driveVars, TypeOK
<1>2. IsTree(snap')
  BY <1>0 DEF ReadCursor, ListingCursor, snapVars
<1>3. valid' \in BOOLEAN
  BY <1>0 DEF ReadCursor, ListingCursor, workVars, snapVars, restVars, TypeOK
<1>4. pc' \in Stages
  BY <1>0 DEF ReadCursor, ListingCursor, Stages, TypeOK
<1>5. updating' \in BOOLEAN
  BY <1>0 DEF ReadCursor, ListingCursor, workVars, snapVars, restVars, TypeOK
<1>6. cursor' \in NoCursor .. Len(log') /\ stored' \in NoCursor .. Len(log')
  BY <1>0, <1>1, LenProperties DEF ReadCursor, ListingCursor, driveVars, workVars, NoCursor, TypeOK
<1>7. page' \in Seq(Actions)
  BY <1>0 DEF ReadCursor, ListingCursor, workVars, snapVars, restVars, TypeOK
<1>8. moved' \subseteq Items /\ more' \in BOOLEAN
  BY <1>0 DEF ReadCursor, ListingCursor, workVars, snapVars, restVars, TypeOK
<1>9. stopAsked' \in BOOLEAN /\ cycle' \in BOOLEAN
  BY <1>0 DEF ReadCursor, ListingCursor, workVars, snapVars, restVars, TypeOK
<1>10. db' \subseteq Items /\ toInit' \in BOOLEAN
  BY <1>0 DEF ReadCursor, ListingCursor, workVars, snapVars, restVars, TypeOK
<1>11. faults' \in 0 .. MaxFaults
  BY <1>0, FaultBounded DEF ReadCursor, ListingCursor, TypeOK
<1> QED
  BY <1>1, <1>2, <1>3, <1>4, <1>5, <1>6, <1>7, <1>8, <1>9, <1>10, <1>11 DEF Inv, TypeOK, IsTree

\* Action LongPoll keeps the invariant.
LEMMA LongPollKeeps ==
  ASSUME Inv, LongPoll
  PROVE  Inv'
<1>0. TypeOK /\ IsTree(snap)
  BY DEF Inv
<1>1. place' \in [Items -> Folders \cup {Away}] /\ log' \in Seq(Actions) /\ Len(log') >= Len(log)
  BY <1>0, LenProperties DEF LongPoll, driveVars, TypeOK
<1>2. IsTree(snap')
  BY <1>0 DEF LongPoll, snapVars
<1>3. valid' \in BOOLEAN
  BY <1>0 DEF LongPoll, workVars, snapVars, restVars, TypeOK
<1>4. pc' \in Stages
  BY <1>0 DEF LongPoll, Stages, TypeOK
<1>5. updating' \in BOOLEAN
  BY <1>0 DEF LongPoll, workVars, snapVars, restVars, TypeOK
<1>6. cursor' \in NoCursor .. Len(log') /\ stored' \in NoCursor .. Len(log')
  BY <1>0, <1>1, LenProperties DEF LongPoll, driveVars, workVars, NoCursor, TypeOK
<1>7. page' \in Seq(Actions)
  BY <1>0 DEF LongPoll, workVars, snapVars, restVars, TypeOK
<1>8. moved' \subseteq Items /\ more' \in BOOLEAN
  BY <1>0 DEF LongPoll, workVars, snapVars, restVars, TypeOK
<1>9. stopAsked' \in BOOLEAN /\ cycle' \in BOOLEAN
  BY <1>0 DEF LongPoll, workVars, snapVars, restVars, TypeOK
<1>10. db' \subseteq Items /\ toInit' \in BOOLEAN
  BY <1>0 DEF LongPoll, workVars, snapVars, restVars, TypeOK
<1>11. faults' \in 0 .. MaxFaults
  BY <1>0, FaultBounded DEF LongPoll, TypeOK
<1> QED
  BY <1>1, <1>2, <1>3, <1>4, <1>5, <1>6, <1>7, <1>8, <1>9, <1>10, <1>11 DEF Inv, TypeOK, IsTree

\* Action FetchPage keeps the invariant.
LEMMA FetchPageKeeps ==
  ASSUME Inv, FetchPage
  PROVE  Inv'
<1>0. TypeOK /\ IsTree(snap)
  BY DEF Inv
<1>1. place' \in [Items -> Folders \cup {Away}] /\ log' \in Seq(Actions) /\ Len(log') >= Len(log)
  BY <1>0, LenProperties DEF FetchPage, Cuts, driveVars, TypeOK
<1>2. IsTree(snap')
  BY <1>0 DEF FetchPage, Cuts, snapVars
<1>3. valid' \in BOOLEAN
  BY <1>0 DEF FetchPage, Cuts, workVars, snapVars, restVars, TypeOK
<1>4. pc' \in Stages
  BY <1>0 DEF FetchPage, Cuts, Stages, TypeOK
<1>5. updating' \in BOOLEAN
  BY <1>0 DEF FetchPage, Cuts, workVars, snapVars, restVars, TypeOK
<1>6. cursor' \in NoCursor .. Len(log') /\ stored' \in NoCursor .. Len(log')
  BY <1>0, <1>1, LenProperties DEF FetchPage, Cuts, driveVars, workVars, NoCursor, TypeOK
<1>7. page' \in Seq(Actions)
  <2>1. PICK m \in Cuts(cursor) : page' = SubSeq(log, cursor + 1, m) \/ page' = <<>>
    BY DEF FetchPage
  <2>2. cursor \in 0 .. Len(log) /\ m \in cursor .. Len(log) /\ log \in Seq(Actions)
    BY <1>0, <2>1 DEF FetchPage, Cuts, TypeOK, NoCursor
  <2>3. \A k \in cursor + 1 .. m : log[k] \in Actions
    BY <2>2, ElementOfSeq
  <2>4. SubSeq(log, cursor + 1, m) \in Seq(Actions)
    BY <2>2, <2>3, SubSeqProperties
  <2>5. <<>> \in Seq(Actions)
    OBVIOUS
  <2> QED
    BY <2>1, <2>4, <2>5, Zenon
<1>8. moved' \subseteq Items /\ more' \in BOOLEAN
  BY <1>0 DEF FetchPage, Cuts, workVars, snapVars, restVars, TypeOK
<1>9. stopAsked' \in BOOLEAN /\ cycle' \in BOOLEAN
  BY <1>0 DEF FetchPage, Cuts, workVars, snapVars, restVars, TypeOK
<1>10. db' \subseteq Items /\ toInit' \in BOOLEAN
  BY <1>0 DEF FetchPage, Cuts, workVars, snapVars, restVars, TypeOK
<1>11. faults' \in 0 .. MaxFaults
  BY <1>0, FaultBounded DEF FetchPage, Cuts, TypeOK
<1> QED
  BY <1>1, <1>2, <1>3, <1>4, <1>5, <1>6, <1>7, <1>8, <1>9, <1>10, <1>11 DEF Inv, TypeOK, IsTree

\* Action FetchFails keeps the invariant.
LEMMA FetchFailsKeeps ==
  ASSUME Inv, FetchFails
  PROVE  Inv'
<1>0. TypeOK /\ IsTree(snap)
  BY DEF Inv
<1>1. place' \in [Items -> Folders \cup {Away}] /\ log' \in Seq(Actions) /\ Len(log') >= Len(log)
  BY <1>0, LenProperties DEF FetchFails, Cuts, Invalidate, ProcessEventsReturns, driveVars, TypeOK
<1>2. IsTree(snap')
  BY <1>0, EmptyIsTree DEF FetchFails, Cuts, Invalidate, ProcessEventsReturns, snapVars, driveVars
<1>3. valid' \in BOOLEAN
  BY <1>0 DEF FetchFails, Cuts, Invalidate, ProcessEventsReturns, workVars, snapVars, restVars, TypeOK
<1>4. pc' \in Stages
  BY <1>0 DEF FetchFails, Cuts, Invalidate, ProcessEventsReturns, Stages, TypeOK
<1>5. updating' \in BOOLEAN
  BY <1>0 DEF FetchFails, Cuts, Invalidate, ProcessEventsReturns, workVars, snapVars, restVars, TypeOK
<1>6. cursor' \in NoCursor .. Len(log') /\ stored' \in NoCursor .. Len(log')
  BY <1>0, <1>1, LenProperties DEF FetchFails, Cuts, Invalidate, ProcessEventsReturns, driveVars, workVars, NoCursor, TypeOK
<1>7. page' \in Seq(Actions)
  BY <1>0 DEF FetchFails, Cuts, Invalidate, ProcessEventsReturns, workVars, snapVars, restVars, TypeOK
<1>8. moved' \subseteq Items /\ more' \in BOOLEAN
  BY <1>0 DEF FetchFails, Cuts, Invalidate, ProcessEventsReturns, workVars, snapVars, restVars, TypeOK
<1>9. stopAsked' \in BOOLEAN /\ cycle' \in BOOLEAN
  BY <1>0 DEF FetchFails, Cuts, Invalidate, ProcessEventsReturns, workVars, snapVars, restVars, TypeOK
<1>10. db' \subseteq Items /\ toInit' \in BOOLEAN
  BY <1>0 DEF FetchFails, Cuts, Invalidate, ProcessEventsReturns, workVars, snapVars, restVars, TypeOK
<1>11. faults' \in 0 .. MaxFaults
  BY <1>0, FaultBounded DEF FetchFails, Cuts, Invalidate, ProcessEventsReturns, TypeOK
<1> QED
  BY <1>1, <1>2, <1>3, <1>4, <1>5, <1>6, <1>7, <1>8, <1>9, <1>10, <1>11 DEF Inv, TypeOK, IsTree

\* Action IgnoreAction keeps the invariant.
LEMMA IgnoreActionKeeps ==
  ASSUME Inv, IgnoreAction
  PROVE  Inv'
<1>0. TypeOK /\ IsTree(snap)
  BY DEF Inv
<1>h. Taken \in Actions /\ Tail(page) \in Seq(Actions)
  BY <1>0, HeadTailProperties DEF IgnoreAction, Acts, Taken, TypeOK
<1>t. Taken.code \in Codes /\ Taken.item \in Items /\ Taken.parent \in Folders
  BY <1>h DEF Actions
<1>1. place' \in [Items -> Folders \cup {Away}] /\ log' \in Seq(Actions) /\ Len(log') >= Len(log)
  BY <1>0, LenProperties DEF IgnoreAction, ActionDone, Acts, driveVars, TypeOK
<1>2. IsTree(snap')
  BY <1>0 DEF IgnoreAction, ActionDone, Acts, snapVars
<1>3. valid' \in BOOLEAN
  BY <1>0 DEF IgnoreAction, ActionDone, Acts, workVars, snapVars, restVars, TypeOK
<1>4. pc' \in Stages
  BY <1>0 DEF IgnoreAction, ActionDone, Acts, Stages, TypeOK
<1>5. updating' \in BOOLEAN
  BY <1>0 DEF IgnoreAction, ActionDone, Acts, workVars, snapVars, restVars, TypeOK
<1>6. cursor' \in NoCursor .. Len(log') /\ stored' \in NoCursor .. Len(log')
  BY <1>0, <1>1, LenProperties DEF IgnoreAction, ActionDone, Acts, driveVars, workVars, NoCursor, TypeOK
<1>7. page' \in Seq(Actions)
  BY <1>0, <1>h DEF IgnoreAction, ActionDone, Acts, workVars, TypeOK
<1>8. moved' \subseteq Items /\ more' \in BOOLEAN
  BY <1>0, <1>t DEF IgnoreAction, ActionDone, Acts, workVars, TypeOK
<1>9. stopAsked' \in BOOLEAN /\ cycle' \in BOOLEAN
  BY <1>0 DEF IgnoreAction, ActionDone, Acts, workVars, snapVars, restVars, TypeOK
<1>10. db' \subseteq Items /\ toInit' \in BOOLEAN
  BY <1>0 DEF IgnoreAction, ActionDone, Acts, workVars, snapVars, restVars, TypeOK
<1>11. faults' \in 0 .. MaxFaults
  BY <1>0, FaultBounded DEF IgnoreAction, ActionDone, Acts, TypeOK
<1> QED
  BY <1>1, <1>2, <1>3, <1>4, <1>5, <1>6, <1>7, <1>8, <1>9, <1>10, <1>11 DEF Inv, TypeOK, IsTree

\* Action UpdateFromAction keeps the invariant.
LEMMA UpdateFromActionKeeps ==
  ASSUME Inv, UpdateFromAction
  PROVE  Inv'
<1>0. TypeOK /\ IsTree(snap)
  BY DEF Inv
<1>h. Taken \in Actions /\ Tail(page) \in Seq(Actions)
  BY <1>0, HeadTailProperties DEF UpdateFromAction, Acts, Taken, TypeOK
<1>t. Taken.code \in Codes /\ Taken.item \in Items /\ Taken.parent \in Folders
  BY <1>h DEF Actions
<1>1. place' \in [Items -> Folders \cup {Away}] /\ log' \in Seq(Actions) /\ Len(log') >= Len(log)
  BY <1>0, LenProperties DEF UpdateFromAction, ActionDone, Acts, driveVars, TypeOK
<1>2. IsTree(snap')
  BY <1>0, <1>t, UpdateKeepsTree DEF UpdateFromAction, ActionDone
<1>3. valid' \in BOOLEAN
  BY <1>0 DEF UpdateFromAction, ActionDone, Acts, workVars, snapVars, restVars, TypeOK
<1>4. pc' \in Stages
  BY <1>0 DEF UpdateFromAction, ActionDone, Acts, Stages, TypeOK
<1>5. updating' \in BOOLEAN
  BY <1>0 DEF UpdateFromAction, ActionDone, Acts, workVars, snapVars, restVars, TypeOK
<1>6. cursor' \in NoCursor .. Len(log') /\ stored' \in NoCursor .. Len(log')
  BY <1>0, <1>1, LenProperties DEF UpdateFromAction, ActionDone, Acts, driveVars, workVars, NoCursor, TypeOK
<1>7. page' \in Seq(Actions)
  BY <1>0, <1>h DEF UpdateFromAction, ActionDone, Acts, workVars, TypeOK
<1>8. moved' \subseteq Items /\ more' \in BOOLEAN
  BY <1>0, <1>t DEF UpdateFromAction, ActionDone, Acts, workVars, TypeOK
<1>9. stopAsked' \in BOOLEAN /\ cycle' \in BOOLEAN
  BY <1>0 DEF UpdateFromAction, ActionDone, Acts, workVars, snapVars, restVars, TypeOK
<1>10. db' \subseteq Items /\ toInit' \in BOOLEAN
  BY <1>0 DEF UpdateFromAction, ActionDone, Acts, workVars, snapVars, restVars, TypeOK
<1>11. faults' \in 0 .. MaxFaults
  BY <1>0, FaultBounded DEF UpdateFromAction, ActionDone, Acts, TypeOK
<1> QED
  BY <1>1, <1>2, <1>3, <1>4, <1>5, <1>6, <1>7, <1>8, <1>9, <1>10, <1>11 DEF Inv, TypeOK, IsTree

\* Action RemoveFromAction keeps the invariant.
LEMMA RemoveFromActionKeeps ==
  ASSUME Inv, RemoveFromAction
  PROVE  Inv'
<1>0. TypeOK /\ IsTree(snap)
  BY DEF Inv
<1>h. Taken \in Actions /\ Tail(page) \in Seq(Actions)
  BY <1>0, HeadTailProperties DEF RemoveFromAction, Acts, Taken, TypeOK
<1>t. Taken.code \in Codes /\ Taken.item \in Items /\ Taken.parent \in Folders
  BY <1>h DEF Actions
<1>1. place' \in [Items -> Folders \cup {Away}] /\ log' \in Seq(Actions) /\ Len(log') >= Len(log)
  BY <1>0, LenProperties DEF RemoveFromAction, ActionDone, Acts, driveVars, TypeOK
<1>2. IsTree(snap')
  BY <1>0, <1>t, RemoveItemKeepsTree DEF RemoveFromAction, ActionDone
<1>3. valid' \in BOOLEAN
  BY <1>0 DEF RemoveFromAction, ActionDone, Acts, workVars, snapVars, restVars, TypeOK
<1>4. pc' \in Stages
  BY <1>0 DEF RemoveFromAction, ActionDone, Acts, Stages, TypeOK
<1>5. updating' \in BOOLEAN
  BY <1>0 DEF RemoveFromAction, ActionDone, Acts, workVars, snapVars, restVars, TypeOK
<1>6. cursor' \in NoCursor .. Len(log') /\ stored' \in NoCursor .. Len(log')
  BY <1>0, <1>1, LenProperties DEF RemoveFromAction, ActionDone, Acts, driveVars, workVars, NoCursor, TypeOK
<1>7. page' \in Seq(Actions)
  BY <1>0, <1>h DEF RemoveFromAction, ActionDone, Acts, workVars, TypeOK
<1>8. moved' \subseteq Items /\ more' \in BOOLEAN
  BY <1>0, <1>t DEF RemoveFromAction, ActionDone, Acts, workVars, TypeOK
<1>9. stopAsked' \in BOOLEAN /\ cycle' \in BOOLEAN
  BY <1>0 DEF RemoveFromAction, ActionDone, Acts, workVars, snapVars, restVars, TypeOK
<1>10. db' \subseteq Items /\ toInit' \in BOOLEAN
  BY <1>0 DEF RemoveFromAction, ActionDone, Acts, workVars, snapVars, restVars, TypeOK
<1>11. faults' \in 0 .. MaxFaults
  BY <1>0, FaultBounded DEF RemoveFromAction, ActionDone, Acts, TypeOK
<1> QED
  BY <1>1, <1>2, <1>3, <1>4, <1>5, <1>6, <1>7, <1>8, <1>9, <1>10, <1>11 DEF Inv, TypeOK, IsTree

\* Action ExploreDirectory keeps the invariant.
LEMMA ExploreDirectoryKeeps ==
  ASSUME Inv, ExploreDirectory
  PROVE  Inv'
<1>0. TypeOK /\ IsTree(snap)
  BY DEF Inv
<1>h. Taken \in Actions /\ Tail(page) \in Seq(Actions)
  BY <1>0, HeadTailProperties DEF ExploreDirectory, Acts, Taken, TypeOK
<1>t. Taken.code \in Codes /\ Taken.item \in Items /\ Taken.parent \in Folders
  BY <1>h DEF Actions
<1>1. place' \in [Items -> Folders \cup {Away}] /\ log' \in Seq(Actions) /\ Len(log') >= Len(log)
  BY <1>0, LenProperties DEF ExploreDirectory, ActionDone, Acts, driveVars, TypeOK
<1>2. IsTree(snap')
  <2>1. IsTree(ExploreResult)
    <3>1. /\ IsTree(UpdateItem(snap, Taken.item, Taken.parent))
          /\ Taken.item \in Known(UpdateItem(snap, Taken.item, Taken.parent))
      BY <1>0, <1>t, UpdateKeepsTree
    <3> QED
      BY <3>1, <1>0, <1>t, ListKeepsTree DEF ExploreResult, TypeOK, Folders
  <2>2. IsTree(RemoveOrphans(ExploreResult))
    BY <2>1, RemoveOrphansKeepsTree
  <2> QED
    BY <2>1, <2>2 DEF ExploreDirectory, ActionDone
<1>3. valid' \in BOOLEAN
  BY <1>0 DEF ExploreDirectory, ActionDone, Acts, workVars, snapVars, restVars, TypeOK
<1>4. pc' \in Stages
  BY <1>0 DEF ExploreDirectory, ActionDone, Acts, Stages, TypeOK
<1>5. updating' \in BOOLEAN
  BY <1>0 DEF ExploreDirectory, ActionDone, Acts, workVars, snapVars, restVars, TypeOK
<1>6. cursor' \in NoCursor .. Len(log') /\ stored' \in NoCursor .. Len(log')
  BY <1>0, <1>1, LenProperties DEF ExploreDirectory, ActionDone, Acts, driveVars, workVars, NoCursor, TypeOK
<1>7. page' \in Seq(Actions)
  BY <1>0, <1>h DEF ExploreDirectory, ActionDone, Acts, workVars, TypeOK
<1>8. moved' \subseteq Items /\ more' \in BOOLEAN
  BY <1>0, <1>t DEF ExploreDirectory, ActionDone, Acts, workVars, TypeOK
<1>9. stopAsked' \in BOOLEAN /\ cycle' \in BOOLEAN
  BY <1>0 DEF ExploreDirectory, ActionDone, Acts, workVars, snapVars, restVars, TypeOK
<1>10. db' \subseteq Items /\ toInit' \in BOOLEAN
  BY <1>0 DEF ExploreDirectory, ActionDone, Acts, workVars, snapVars, restVars, TypeOK
<1>11. faults' \in 0 .. MaxFaults
  BY <1>0, FaultBounded DEF ExploreDirectory, ActionDone, Acts, TypeOK
<1> QED
  BY <1>1, <1>2, <1>3, <1>4, <1>5, <1>6, <1>7, <1>8, <1>9, <1>10, <1>11 DEF Inv, TypeOK, IsTree

\* Action ActionFails keeps the invariant.
LEMMA ActionFailsKeeps ==
  ASSUME Inv, ActionFails
  PROVE  Inv'
<1>0. TypeOK /\ IsTree(snap)
  BY DEF Inv
<1>1. place' \in [Items -> Folders \cup {Away}] /\ log' \in Seq(Actions) /\ Len(log') >= Len(log)
  BY <1>0, LenProperties DEF ActionFails, Invalidate, ProcessEventsReturns, Acts, driveVars, TypeOK
<1>2. IsTree(snap')
  BY <1>0, EmptyIsTree DEF ActionFails, Invalidate, ProcessEventsReturns, Acts, snapVars, driveVars
<1>3. valid' \in BOOLEAN
  BY <1>0 DEF ActionFails, Invalidate, ProcessEventsReturns, Acts, workVars, snapVars, restVars, TypeOK
<1>4. pc' \in Stages
  BY <1>0 DEF ActionFails, Invalidate, ProcessEventsReturns, Acts, Stages, TypeOK
<1>5. updating' \in BOOLEAN
  BY <1>0 DEF ActionFails, Invalidate, ProcessEventsReturns, Acts, workVars, snapVars, restVars, TypeOK
<1>6. cursor' \in NoCursor .. Len(log') /\ stored' \in NoCursor .. Len(log')
  BY <1>0, <1>1, LenProperties DEF ActionFails, Invalidate, ProcessEventsReturns, Acts, driveVars, workVars, NoCursor, TypeOK
<1>7. page' \in Seq(Actions)
  BY <1>0 DEF ActionFails, Invalidate, ProcessEventsReturns, Acts, workVars, snapVars, restVars, TypeOK
<1>8. moved' \subseteq Items /\ more' \in BOOLEAN
  BY <1>0 DEF ActionFails, Invalidate, ProcessEventsReturns, Acts, workVars, snapVars, restVars, TypeOK
<1>9. stopAsked' \in BOOLEAN /\ cycle' \in BOOLEAN
  BY <1>0 DEF ActionFails, Invalidate, ProcessEventsReturns, Acts, workVars, snapVars, restVars, TypeOK
<1>10. db' \subseteq Items /\ toInit' \in BOOLEAN
  BY <1>0 DEF ActionFails, Invalidate, ProcessEventsReturns, Acts, workVars, snapVars, restVars, TypeOK
<1>11. faults' \in 0 .. MaxFaults
  BY <1>0, FaultBounded DEF ActionFails, Invalidate, ProcessEventsReturns, Acts, TypeOK
<1> QED
  BY <1>1, <1>2, <1>3, <1>4, <1>5, <1>6, <1>7, <1>8, <1>9, <1>10, <1>11 DEF Inv, TypeOK, IsTree

\* Action PageEnds keeps the invariant.
LEMMA PageEndsKeeps ==
  ASSUME Inv, PageEnds
  PROVE  Inv'
<1>0. TypeOK /\ IsTree(snap)
  BY DEF Inv
<1>1. place' \in [Items -> Folders \cup {Away}] /\ log' \in Seq(Actions) /\ Len(log') >= Len(log)
  BY <1>0, LenProperties DEF PageEnds, driveVars, TypeOK
<1>2. IsTree(snap')
  BY <1>0 DEF PageEnds, snapVars
<1>3. valid' \in BOOLEAN
  BY <1>0 DEF PageEnds, workVars, snapVars, restVars, TypeOK
<1>4. pc' \in Stages
  BY <1>0 DEF PageEnds, Stages, TypeOK
<1>5. updating' \in BOOLEAN
  BY <1>0 DEF PageEnds, workVars, snapVars, restVars, TypeOK
<1>6. cursor' \in NoCursor .. Len(log') /\ stored' \in NoCursor .. Len(log')
  BY <1>0, <1>1, LenProperties DEF PageEnds, driveVars, workVars, NoCursor, TypeOK
<1>7. page' \in Seq(Actions)
  BY <1>0 DEF PageEnds, workVars, snapVars, restVars, TypeOK
<1>8. moved' \subseteq Items /\ more' \in BOOLEAN
  BY <1>0 DEF PageEnds, workVars, snapVars, restVars, TypeOK
<1>9. stopAsked' \in BOOLEAN /\ cycle' \in BOOLEAN
  BY <1>0 DEF PageEnds, workVars, snapVars, restVars, TypeOK
<1>10. db' \subseteq Items /\ toInit' \in BOOLEAN
  BY <1>0 DEF PageEnds, workVars, snapVars, restVars, TypeOK
<1>11. faults' \in 0 .. MaxFaults
  BY <1>0, FaultBounded DEF PageEnds, TypeOK
<1> QED
  BY <1>1, <1>2, <1>3, <1>4, <1>5, <1>6, <1>7, <1>8, <1>9, <1>10, <1>11 DEF Inv, TypeOK, IsTree

\* Action EventsEnd keeps the invariant.
LEMMA EventsEndKeeps ==
  ASSUME Inv, EventsEnd
  PROVE  Inv'
<1>0. TypeOK /\ IsTree(snap)
  BY DEF Inv
<1>1. place' \in [Items -> Folders \cup {Away}] /\ log' \in Seq(Actions) /\ Len(log') >= Len(log)
  BY <1>0, LenProperties DEF EventsEnd, ProcessEventsReturns, driveVars, TypeOK
<1>2. IsTree(snap')
  BY <1>0 DEF EventsEnd, ProcessEventsReturns, snapVars
<1>3. valid' \in BOOLEAN
  BY <1>0 DEF EventsEnd, ProcessEventsReturns, workVars, snapVars, restVars, TypeOK
<1>4. pc' \in Stages
  BY <1>0 DEF EventsEnd, ProcessEventsReturns, Stages, TypeOK
<1>5. updating' \in BOOLEAN
  BY <1>0 DEF EventsEnd, ProcessEventsReturns, workVars, snapVars, restVars, TypeOK
<1>6. cursor' \in NoCursor .. Len(log') /\ stored' \in NoCursor .. Len(log')
  BY <1>0, <1>1, LenProperties DEF EventsEnd, ProcessEventsReturns, driveVars, workVars, NoCursor, TypeOK
<1>7. page' \in Seq(Actions)
  BY <1>0 DEF EventsEnd, ProcessEventsReturns, workVars, snapVars, restVars, TypeOK
<1>8. moved' \subseteq Items /\ more' \in BOOLEAN
  BY <1>0 DEF EventsEnd, ProcessEventsReturns, workVars, snapVars, restVars, TypeOK
<1>9. stopAsked' \in BOOLEAN /\ cycle' \in BOOLEAN
  BY <1>0 DEF EventsEnd, ProcessEventsReturns, workVars, snapVars, restVars, TypeOK
<1>10. db' \subseteq Items /\ toInit' \in BOOLEAN
  BY <1>0 DEF EventsEnd, ProcessEventsReturns, workVars, snapVars, restVars, TypeOK
<1>11. faults' \in 0 .. MaxFaults
  BY <1>0, FaultBounded DEF EventsEnd, ProcessEventsReturns, TypeOK
<1> QED
  BY <1>1, <1>2, <1>3, <1>4, <1>5, <1>6, <1>7, <1>8, <1>9, <1>10, <1>11 DEF Inv, TypeOK, IsTree

\* Action Start keeps the invariant.
LEMMA StartKeeps ==
  ASSUME Inv, Start
  PROVE  Inv'
<1>0. TypeOK /\ IsTree(snap)
  BY DEF Inv
<1>1. place' \in [Items -> Folders \cup {Away}] /\ log' \in Seq(Actions) /\ Len(log') >= Len(log)
  BY <1>0, LenProperties DEF Start, driveVars, TypeOK
<1>2. IsTree(snap')
  BY <1>0 DEF Start, snapVars
<1>3. valid' \in BOOLEAN
  BY <1>0 DEF Start, workVars, snapVars, restVars, TypeOK
<1>4. pc' \in Stages
  BY <1>0 DEF Start, Stages, TypeOK
<1>5. updating' \in BOOLEAN
  BY <1>0 DEF Start, workVars, snapVars, restVars, TypeOK
<1>6. cursor' \in NoCursor .. Len(log') /\ stored' \in NoCursor .. Len(log')
  BY <1>0, <1>1, LenProperties DEF Start, driveVars, workVars, NoCursor, TypeOK
<1>7. page' \in Seq(Actions)
  BY <1>0 DEF Start, workVars, snapVars, restVars, TypeOK
<1>8. moved' \subseteq Items /\ more' \in BOOLEAN
  BY <1>0 DEF Start, workVars, snapVars, restVars, TypeOK
<1>9. stopAsked' \in BOOLEAN /\ cycle' \in BOOLEAN
  BY <1>0 DEF Start, workVars, snapVars, restVars, TypeOK
<1>10. db' \subseteq Items /\ toInit' \in BOOLEAN
  BY <1>0 DEF Start, workVars, snapVars, restVars, TypeOK
<1>11. faults' \in 0 .. MaxFaults
  BY <1>0, FaultBounded DEF Start, TypeOK
<1> QED
  BY <1>1, <1>2, <1>3, <1>4, <1>5, <1>6, <1>7, <1>8, <1>9, <1>10, <1>11 DEF Inv, TypeOK, IsTree

\* Action Stop keeps the invariant.
LEMMA StopKeeps ==
  ASSUME Inv, Stop
  PROVE  Inv'
<1>0. TypeOK /\ IsTree(snap)
  BY DEF Inv
<1>1. place' \in [Items -> Folders \cup {Away}] /\ log' \in Seq(Actions) /\ Len(log') >= Len(log)
  BY <1>0, LenProperties DEF Stop, driveVars, TypeOK
<1>2. IsTree(snap')
  BY <1>0 DEF Stop, snapVars
<1>3. valid' \in BOOLEAN
  BY <1>0 DEF Stop, workVars, snapVars, restVars, TypeOK
<1>4. pc' \in Stages
  BY <1>0 DEF Stop, Stages, TypeOK
<1>5. updating' \in BOOLEAN
  BY <1>0 DEF Stop, workVars, snapVars, restVars, TypeOK
<1>6. cursor' \in NoCursor .. Len(log') /\ stored' \in NoCursor .. Len(log')
  BY <1>0, <1>1, LenProperties DEF Stop, driveVars, workVars, NoCursor, TypeOK
<1>7. page' \in Seq(Actions)
  BY <1>0 DEF Stop, workVars, snapVars, restVars, TypeOK
<1>8. moved' \subseteq Items /\ more' \in BOOLEAN
  BY <1>0 DEF Stop, workVars, snapVars, restVars, TypeOK
<1>9. stopAsked' \in BOOLEAN /\ cycle' \in BOOLEAN
  BY <1>0 DEF Stop, workVars, snapVars, restVars, TypeOK
<1>10. db' \subseteq Items /\ toInit' \in BOOLEAN
  BY <1>0 DEF Stop, workVars, snapVars, restVars, TypeOK
<1>11. faults' \in 0 .. MaxFaults
  BY <1>0, FaultBounded DEF Stop, TypeOK
<1> QED
  BY <1>1, <1>2, <1>3, <1>4, <1>5, <1>6, <1>7, <1>8, <1>9, <1>10, <1>11 DEF Inv, TypeOK, IsTree

\* Action Crash keeps the invariant.
LEMMA CrashKeeps ==
  ASSUME Inv, Crash
  PROVE  Inv'
<1>0. TypeOK /\ IsTree(snap)
  BY DEF Inv
<1>1. place' \in [Items -> Folders \cup {Away}] /\ log' \in Seq(Actions) /\ Len(log') >= Len(log)
  BY <1>0, LenProperties DEF Crash, driveVars, TypeOK
<1>2. IsTree(snap')
  BY <1>0, EmptyIsTree DEF Crash, snapVars, driveVars
<1>3. valid' \in BOOLEAN
  BY <1>0 DEF Crash, workVars, snapVars, restVars, TypeOK
<1>4. pc' \in Stages
  BY <1>0 DEF Crash, Stages, TypeOK
<1>5. updating' \in BOOLEAN
  BY <1>0 DEF Crash, workVars, snapVars, restVars, TypeOK
<1>6. cursor' \in NoCursor .. Len(log') /\ stored' \in NoCursor .. Len(log')
  BY <1>0, <1>1, LenProperties DEF Crash, driveVars, workVars, NoCursor, TypeOK
<1>7. page' \in Seq(Actions)
  BY <1>0 DEF Crash, workVars, snapVars, restVars, TypeOK
<1>8. moved' \subseteq Items /\ more' \in BOOLEAN
  BY <1>0 DEF Crash, workVars, snapVars, restVars, TypeOK
<1>9. stopAsked' \in BOOLEAN /\ cycle' \in BOOLEAN
  BY <1>0 DEF Crash, workVars, snapVars, restVars, TypeOK
<1>10. db' \subseteq Items /\ toInit' \in BOOLEAN
  BY <1>0 DEF Crash, workVars, snapVars, restVars, TypeOK
<1>11. faults' \in 0 .. MaxFaults
  BY <1>0, FaultBounded DEF Crash, TypeOK
<1> QED
  BY <1>1, <1>2, <1>3, <1>4, <1>5, <1>6, <1>7, <1>8, <1>9, <1>10, <1>11 DEF Inv, TypeOK, IsTree

\* Action StartCycle keeps the invariant.
LEMMA StartCycleKeeps ==
  ASSUME Inv, StartCycle
  PROVE  Inv'
<1>0. TypeOK /\ IsTree(snap)
  BY DEF Inv
<1>1. place' \in [Items -> Folders \cup {Away}] /\ log' \in Seq(Actions) /\ Len(log') >= Len(log)
  BY <1>0, LenProperties DEF StartCycle, driveVars, TypeOK
<1>2. IsTree(snap')
  BY <1>0 DEF StartCycle, snapVars
<1>3. valid' \in BOOLEAN
  BY <1>0 DEF StartCycle, workVars, snapVars, restVars, TypeOK
<1>4. pc' \in Stages
  BY <1>0 DEF StartCycle, Stages, TypeOK
<1>5. updating' \in BOOLEAN
  BY <1>0 DEF StartCycle, workVars, snapVars, restVars, TypeOK
<1>6. cursor' \in NoCursor .. Len(log') /\ stored' \in NoCursor .. Len(log')
  BY <1>0, <1>1, LenProperties DEF StartCycle, driveVars, workVars, NoCursor, TypeOK
<1>7. page' \in Seq(Actions)
  BY <1>0 DEF StartCycle, workVars, snapVars, restVars, TypeOK
<1>8. moved' \subseteq Items /\ more' \in BOOLEAN
  BY <1>0 DEF StartCycle, workVars, snapVars, restVars, TypeOK
<1>9. stopAsked' \in BOOLEAN /\ cycle' \in BOOLEAN
  BY <1>0 DEF StartCycle, workVars, snapVars, restVars, TypeOK
<1>10. db' \subseteq Items /\ toInit' \in BOOLEAN
  BY <1>0 DEF StartCycle, workVars, snapVars, restVars, TypeOK
<1>11. faults' \in 0 .. MaxFaults
  BY <1>0, FaultBounded DEF StartCycle, TypeOK
<1> QED
  BY <1>1, <1>2, <1>3, <1>4, <1>5, <1>6, <1>7, <1>8, <1>9, <1>10, <1>11 DEF Inv, TypeOK, IsTree

\* Action Upload keeps the invariant.
LEMMA UploadKeeps ==
  ASSUME Inv, NEW i \in Items, NEW p \in Folders, Upload(i, p)
  PROVE  Inv'
<1>0. TypeOK /\ IsTree(snap)
  BY DEF Inv
<1>1. place' \in [Items -> Folders \cup {Away}] /\ log' \in Seq(Actions) /\ Len(log') >= Len(log)
  <2>1. log' = log \o <<Action("create", i, p)>> /\ log \in Seq(Actions) /\ place \in [Items -> Folders \cup {Away}]
    BY <1>0 DEF Upload, Logs, TypeOK
  <2>3. <<Action("create", i, p)>> \in Seq(Actions)
    BY <1>0 DEF Action, Actions, Codes, InCodes, OutCodes
  <2>4. place' \in [Items -> Folders \cup {Away}]
    BY <2>1 DEF Upload, driveVars
  <2> QED
    BY <2>1, <2>3, <2>4, ConcatProperties, LenProperties
<1>2. IsTree(snap')
  BY <1>0 DEF Upload, snapVars
<1>3. valid' \in BOOLEAN
  BY <1>0 DEF Upload, workVars, snapVars, restVars, TypeOK
<1>4. pc' \in Stages
  BY <1>0 DEF Upload, Stages, TypeOK
<1>5. updating' \in BOOLEAN
  BY <1>0 DEF Upload, workVars, snapVars, restVars, TypeOK
<1>6. cursor' \in NoCursor .. Len(log') /\ stored' \in NoCursor .. Len(log')
  BY <1>0, <1>1, LenProperties DEF Upload, driveVars, workVars, NoCursor, TypeOK
<1>7. page' \in Seq(Actions)
  BY <1>0 DEF Upload, workVars, snapVars, restVars, TypeOK
<1>8. moved' \subseteq Items /\ more' \in BOOLEAN
  BY <1>0 DEF Upload, workVars, snapVars, restVars, TypeOK
<1>9. stopAsked' \in BOOLEAN /\ cycle' \in BOOLEAN
  BY <1>0 DEF Upload, workVars, snapVars, restVars, TypeOK
<1>10. db' \subseteq Items /\ toInit' \in BOOLEAN
  BY <1>0 DEF Upload, workVars, snapVars, restVars, TypeOK
<1>11. faults' \in 0 .. MaxFaults
  BY <1>0, FaultBounded DEF Upload, TypeOK
<1> QED
  BY <1>1, <1>2, <1>3, <1>4, <1>5, <1>6, <1>7, <1>8, <1>9, <1>10, <1>11 DEF Inv, TypeOK, IsTree

\* Action ExecutorEnds keeps the invariant.
LEMMA ExecutorEndsKeeps ==
  ASSUME Inv, ExecutorEnds
  PROVE  Inv'
<1>0. TypeOK /\ IsTree(snap)
  BY DEF Inv
<1>1. place' \in [Items -> Folders \cup {Away}] /\ log' \in Seq(Actions) /\ Len(log') >= Len(log)
  BY <1>0, LenProperties DEF ExecutorEnds, driveVars, TypeOK
<1>2. IsTree(snap')
  BY <1>0 DEF ExecutorEnds, snapVars
<1>3. valid' \in BOOLEAN
  BY <1>0 DEF ExecutorEnds, workVars, snapVars, restVars, TypeOK
<1>4. pc' \in Stages
  BY <1>0 DEF ExecutorEnds, Stages, TypeOK
<1>5. updating' \in BOOLEAN
  BY <1>0 DEF ExecutorEnds, workVars, snapVars, restVars, TypeOK
<1>6. cursor' \in NoCursor .. Len(log') /\ stored' \in NoCursor .. Len(log')
  BY <1>0, <1>1, LenProperties DEF ExecutorEnds, driveVars, workVars, NoCursor, TypeOK
<1>7. page' \in Seq(Actions)
  BY <1>0 DEF ExecutorEnds, workVars, snapVars, restVars, TypeOK
<1>8. moved' \subseteq Items /\ more' \in BOOLEAN
  BY <1>0 DEF ExecutorEnds, workVars, snapVars, restVars, TypeOK
<1>9. stopAsked' \in BOOLEAN /\ cycle' \in BOOLEAN
  BY <1>0 DEF ExecutorEnds, workVars, snapVars, restVars, TypeOK
<1>10. db' \subseteq Items /\ toInit' \in BOOLEAN
  BY <1>0 DEF ExecutorEnds, workVars, snapVars, restVars, TypeOK
<1>11. faults' \in 0 .. MaxFaults
  BY <1>0, FaultBounded DEF ExecutorEnds, TypeOK
<1> QED
  BY <1>1, <1>2, <1>3, <1>4, <1>5, <1>6, <1>7, <1>8, <1>9, <1>10, <1>11 DEF Inv, TypeOK, IsTree

\* Action CycleAborts keeps the invariant.
LEMMA CycleAbortsKeeps ==
  ASSUME Inv, CycleAborts
  PROVE  Inv'
<1>0. TypeOK /\ IsTree(snap)
  BY DEF Inv
<1>1. place' \in [Items -> Folders \cup {Away}] /\ log' \in Seq(Actions) /\ Len(log') >= Len(log)
  BY <1>0, LenProperties DEF CycleAborts, driveVars, TypeOK
<1>2. IsTree(snap')
  BY <1>0 DEF CycleAborts, snapVars
<1>3. valid' \in BOOLEAN
  BY <1>0 DEF CycleAborts, workVars, snapVars, restVars, TypeOK
<1>4. pc' \in Stages
  BY <1>0 DEF CycleAborts, Stages, TypeOK
<1>5. updating' \in BOOLEAN
  BY <1>0 DEF CycleAborts, workVars, snapVars, restVars, TypeOK
<1>6. cursor' \in NoCursor .. Len(log') /\ stored' \in NoCursor .. Len(log')
  BY <1>0, <1>1, LenProperties DEF CycleAborts, driveVars, workVars, NoCursor, TypeOK
<1>7. page' \in Seq(Actions)
  BY <1>0 DEF CycleAborts, workVars, snapVars, restVars, TypeOK
<1>8. moved' \subseteq Items /\ more' \in BOOLEAN
  BY <1>0 DEF CycleAborts, workVars, snapVars, restVars, TypeOK
<1>9. stopAsked' \in BOOLEAN /\ cycle' \in BOOLEAN
  BY <1>0 DEF CycleAborts, workVars, snapVars, restVars, TypeOK
<1>10. db' \subseteq Items /\ toInit' \in BOOLEAN
  BY <1>0 DEF CycleAborts, workVars, snapVars, restVars, TypeOK
<1>11. faults' \in 0 .. MaxFaults
  BY <1>0, FaultBounded DEF CycleAborts, TypeOK
<1> QED
  BY <1>1, <1>2, <1>3, <1>4, <1>5, <1>6, <1>7, <1>8, <1>9, <1>10, <1>11 DEF Inv, TypeOK, IsTree

\* Action InvalidateAsked keeps the invariant.
LEMMA InvalidateAskedKeeps ==
  ASSUME Inv, InvalidateAsked
  PROVE  Inv'
<1>0. TypeOK /\ IsTree(snap)
  BY DEF Inv
<1>1. place' \in [Items -> Folders \cup {Away}] /\ log' \in Seq(Actions) /\ Len(log') >= Len(log)
  BY <1>0, LenProperties DEF InvalidateAsked, driveVars, TypeOK
<1>2. IsTree(snap')
  BY <1>0, EmptyIsTree DEF InvalidateAsked, snapVars, driveVars
<1>3. valid' \in BOOLEAN
  BY <1>0 DEF InvalidateAsked, workVars, snapVars, restVars, TypeOK
<1>4. pc' \in Stages
  BY <1>0 DEF InvalidateAsked, Stages, TypeOK
<1>5. updating' \in BOOLEAN
  BY <1>0 DEF InvalidateAsked, workVars, snapVars, restVars, TypeOK
<1>6. cursor' \in NoCursor .. Len(log') /\ stored' \in NoCursor .. Len(log')
  BY <1>0, <1>1, LenProperties DEF InvalidateAsked, driveVars, workVars, NoCursor, TypeOK
<1>7. page' \in Seq(Actions)
  BY <1>0 DEF InvalidateAsked, workVars, snapVars, restVars, TypeOK
<1>8. moved' \subseteq Items /\ more' \in BOOLEAN
  BY <1>0 DEF InvalidateAsked, workVars, snapVars, restVars, TypeOK
<1>9. stopAsked' \in BOOLEAN /\ cycle' \in BOOLEAN
  BY <1>0 DEF InvalidateAsked, workVars, snapVars, restVars, TypeOK
<1>10. db' \subseteq Items /\ toInit' \in BOOLEAN
  BY <1>0 DEF InvalidateAsked, workVars, snapVars, restVars, TypeOK
<1>11. faults' \in 0 .. MaxFaults
  BY <1>0, FaultBounded DEF InvalidateAsked, TypeOK
<1> QED
  BY <1>1, <1>2, <1>3, <1>4, <1>5, <1>6, <1>7, <1>8, <1>9, <1>10, <1>11 DEF Inv, TypeOK, IsTree

\* A step that changes nothing keeps the invariant.
LEMMA StutterKeeps ==
  ASSUME Inv, UNCHANGED vars
  PROVE  Inv'
<1>1. /\ UNCHANGED <<place, log, snap, valid>> /\ UNCHANGED <<pc, updating, stopAsked, faults>>
      /\ UNCHANGED <<cursor, page, moved, more, stored>> /\ UNCHANGED <<cycle, db, toInit>>
  BY DEF vars, driveVars, snapVars, workVars, restVars
<1> QED
  BY <1>1 DEF Inv, TypeOK

\* The invariant holds at the start.
LEMMA InitInv == Init => Inv
<1> SUFFICES ASSUME Init PROVE Inv
  OBVIOUS
<1>1. IsTree(snap)
  BY EmptyIsTree DEF Init
<1>2. log \in Seq(Actions) /\ Len(log) = 0 /\ page \in Seq(Actions)
  BY DEF Init
<1>3. place \in [Items -> Folders \cup {Away}]
  BY DEF Init
<1>4. /\ valid \in BOOLEAN /\ updating \in BOOLEAN /\ more \in BOOLEAN
      /\ stopAsked \in BOOLEAN /\ cycle \in BOOLEAN /\ toInit \in BOOLEAN
  BY DEF Init
<1>5. pc \in Stages /\ moved \subseteq Items /\ db \subseteq Items /\ faults \in 0 .. MaxFaults
  BY DEF Init, Stages
<1>6. cursor \in NoCursor .. Len(log) /\ stored \in NoCursor .. Len(log)
  BY <1>2 DEF Init, NoCursor
<1> QED
  BY <1>1, <1>2, <1>3, <1>4, <1>5, <1>6 DEF Inv, TypeOK, IsTree

\* Every step keeps the invariant.
LEMMA NextKeeps ==
  ASSUME Inv, [Next]_vars
  PROVE  Inv'
<1>1. CASE Drive
  BY <1>1, DriveInKeeps, DriveOutKeeps, DriveMoveKeeps, DriveEditKeeps DEF Drive
<1>2. CASE Observer
  BY <1>2, LoopTopKeeps, ListAnsweredKeeps, ListFailsKeeps, SetValidKeeps, ReadCursorKeeps,
     LongPollKeeps, FetchPageKeeps, FetchFailsKeeps, IgnoreActionKeeps, UpdateFromActionKeeps,
     RemoveFromActionKeeps, ExploreDirectoryKeeps, ActionFailsKeeps, PageEndsKeeps, EventsEndKeeps
  DEF Observer
<1>3. CASE Rest
  BY <1>3, StartKeeps, StopKeeps, CrashKeeps, StartCycleKeeps, ExecutorEndsKeeps,
     CycleAbortsKeeps, InvalidateAskedKeeps, UploadKeeps DEF Rest
<1>4. CASE UNCHANGED vars
  BY <1>4, StutterKeeps
<1> QED
  BY <1>1, <1>2, <1>3, <1>4 DEF Next

\* The invariant always holds.
LEMMA InvHolds == Spec => []Inv
<1> QED
  BY InitInv, NextKeeps, PTL DEF Spec

\* The state keeps its type, for every drive; above all no cursor, in memory or
\* in the database, is beyond the log, whatever fails and restarts.
THEOREM TypeCorrect == Spec => []TypeOK
<1>1. Inv => TypeOK
  BY DEF Inv
<1> QED
  BY <1>1, InvHolds, PTL

\* The children lists are always the parents read backwards, and a parent is
\* always known (updateItem, removeItem, getItemsInDir), whatever the server
\* answers and whenever another thread empties the snapshot.
THEOREM SnapshotIsATree == Spec => []ChildrenAreInverse
<1>1. Inv => ChildrenAreInverse
  BY TreeIsInverse DEF Inv, TypeOK
<1> QED
  BY <1>1, InvHolds, PTL

-----------------------------------------------------------------------------
(***************************************************************************)
(* The snapshot is the drive when the cursor is at the end of the log      *)
(* (SnapshotIsTheDrive), for every drive on which what the code expects of *)
(* the drive holds (Expected), whatever fails.                             *)
(*                                                                         *)
(* The drive goes on while a page of its past is applied, and a directory  *)
(* that comes is listed as it is now: the snapshot is then the drive of no *)
(* moment. What holds at each step is said of the single item: once no     *)
(* action that is left to apply decides where it is (Firm), it is where    *)
(* the drive has it or not there at all, and it is there if the same holds *)
(* of the folders above it (Sure).                                         *)
(***************************************************************************)

\* The items that move, and so may be in movedItems.
Movers == {i \in Items : May[i] \cap {"move", "moveIn"} # {}}

\* What the code expects of the drive: the log is cut and its answers are read as
\* it thinks, an item comes into the folders meant for it, what moves in does not move
\* out or lose its rights (movedItems would hide that), and what is shown again comes
\* back where it was hidden. Without the last a revoke that is taken late, and ignored,
\* leaves the item where it was (remotefilesystemobserverworker.cpp:610).
Expected ==
    /\ Races = {}
    /\ Uploads \cap Dirs = {}
    /\ \A i \in Items : Home[i] \in Places[i] \cup {Away}
    /\ \A i \in Movers : May[i] \cap {"moveOut", "revoke"} = {}
    /\ \A i \in Items : "grant" \in May[i] => \A p, q \in Places[i] : p = q

\* Whether an action decides where its item is: an edit does not, nor does the
\* second half of a move.
Decides(a) ==
    \/ a.code \in InCodes \cup {"trash"}
    \/ a.code \in {"moveOut", "revoke"} /\ a.item \notin Movers

\* The items whose place nothing in the log l decides after position n.
Firm(l, n) == {i \in Items : \A m \in DOMAIN l : m > n /\ l[m].item = i => ~Decides(l[m])}

\* The items that are firm with all folders above them, up to the root, when pl tells
\* the places. The others are the union of the sets no firm member leaves upwards.
Sure(firm, pl) ==
    {i \in Items : \A T \in SUBSET Items :
        i \in T => \E k \in T : k \in firm /\ pl[k] \notin T \cup {Away}}

\* What the snapshot s says of the places is right.
Faithful(s, firm, pl) ==
    /\ \A i \in firm : s.parent[i] \in Folders => s.parent[i] = pl[i]
    /\ \A i \in Sure(firm, pl) : s.parent[i] = pl[i]
-----------------------------------------------------------------------------
(* Sure items.                                                              *)

\* A set no firm member leaves upwards has no sure item.
LEMMA ClosedIsUnsure ==
  ASSUME NEW firm, NEW pl, NEW T \in SUBSET Items,
         \A k \in T : k \notin firm \/ pl[k] \in T \cup {Away}
  PROVE  T \cap Sure(firm, pl) = {}
  BY DEF Sure

\* The items that are not sure are such a set.
LEMMA UnsureIsClosed ==
  ASSUME NEW firm, NEW pl, NEW k \in Items \ Sure(firm, pl)
  PROVE  k \notin firm \/ pl[k] \in (Items \ Sure(firm, pl)) \cup {Away}
<1>1. PICK T \in SUBSET Items : k \in T /\ \A j \in T : j \notin firm \/ pl[j] \in T \cup {Away}
  BY DEF Sure
<1>2. T \cap Sure(firm, pl) = {}
  BY <1>1, ClosedIsUnsure
<1> QED
  BY <1>1, <1>2

\* A sure item is firm.
LEMMA SureIsFirm ==
  ASSUME NEW firm, NEW pl, NEW i \in Sure(firm, pl)
  PROVE  i \in Items /\ i \in firm
<1>1. i \in Items
  BY DEF Sure
<1>2. ASSUME i \notin firm PROVE FALSE
  <2>1. {i} \cap Sure(firm, pl) = {}
    <3>1. {i} \in SUBSET Items /\ \A k \in {i} : k \notin firm \/ pl[k] \in {i} \cup {Away}
      BY <1>1, <1>2
    <3> QED
      BY <3>1, ClosedIsUnsure
  <2> QED
    BY <2>1
<1> QED
  BY <1>1, <1>2

\* A sure item is in the root or in a sure folder.
LEMMA SureHasParent ==
  ASSUME NEW firm, NEW pl \in [Items -> Folders \cup {Away}], NEW i \in Sure(firm, pl)
  PROVE  pl[i] \in Sure(firm, pl) \cup {Root}
<1> DEFINE T == (Items \ Sure(firm, pl)) \cup {i}
<1>1. i \in Items
  BY DEF Sure
<1>2. ASSUME pl[i] \notin Sure(firm, pl) \cup {Root} PROVE FALSE
  <2>1. pl[i] \in (Items \ Sure(firm, pl)) \cup {Away}
    BY <1>1, <1>2 DEF Folders
  <2>2. \A k \in T : k \notin firm \/ pl[k] \in T \cup {Away}
    BY <2>1, UnsureIsClosed
  <2>3. T \cap Sure(firm, pl) = {}
    <3>1. T \in SUBSET Items
      BY <1>1
    <3> QED
      BY <3>1, <2>2, ClosedIsUnsure
  <2> QED
    BY <2>3
<1> QED
  BY <1>2

\* A sure item is on the drive.
LEMMA SureIsOnDrive ==
  ASSUME NEW firm
  PROVE  Sure(firm, place) \subseteq Inside(Root)
  BY DEF Sure, Inside

\* Fewer firm items make fewer sure ones, if their places stay.
LEMMA LessIsSure ==
  ASSUME NEW firm, NEW pl, NEW firm2, NEW pl2, \A k \in firm2 : k \in firm /\ pl2[k] = pl[k]
  PROVE  Sure(firm2, pl2) \subseteq Sure(firm, pl)
<1> DEFINE T == Items \ Sure(firm, pl)
<1>1. \A k \in T : k \notin firm2 \/ pl2[k] \in T \cup {Away}
  BY UnsureIsClosed
<1>2. T \cap Sure(firm2, pl2) = {}
  BY <1>1, ClosedIsUnsure
<1> QED
  BY <1>2 DEF Sure

\* What is in a folder, or in what is inside it, is inside it.
LEMMA InsideHasChildren ==
  ASSUME place \in [Items -> Folders \cup {Away}], NEW d \in Items, NEW k \in Items \ {d},
         place[k] \in {d} \cup Inside(d)
  PROVE  k \in Inside(d)
<1>0. d # Root /\ d # Away /\ Inside(d) \subseteq Items \ {d} /\ Root \notin Items /\ Away \notin Items
  BY DEF Inside, Folders
<1>1. ASSUME NEW T \in SUBSET (Items \ {d}), k \in T,
             \A j \in T : place[j] \in T \cup ({Root, Away} \ {d})
      PROVE  FALSE
  <2>1. place[k] \in T /\ place[k] \in Inside(d)
    BY <1>0, <1>1
  <2> QED
    BY <2>1, <1>1 DEF Inside
<1> QED
  BY <1>1 DEF Inside

\* When one item becomes firm, only that one and what is inside it become sure.
LEMMA NewlySure ==
  ASSUME place \in [Items -> Folders \cup {Away}], NEW d \in Items, NEW firm, NEW firm2,
         firm2 \subseteq firm \cup {d}
  PROVE  Sure(firm2, place) \subseteq Sure(firm, place) \cup {d} \cup Inside(d)
<1> DEFINE T == Items \ (Sure(firm, place) \cup {d} \cup Inside(d))
<1>1. ASSUME NEW k \in T PROVE k \notin firm2 \/ place[k] \in T \cup {Away}
  <2>1. k \notin firm \/ place[k] \in (Items \ Sure(firm, place)) \cup {Away}
    BY UnsureIsClosed
  <2>2. place[k] \notin {d} \cup Inside(d)
    BY InsideHasChildren
  <2> QED
    BY <2>1, <2>2
<1>2. T \cap Sure(firm2, place) = {}
  BY <1>1, ClosedIsUnsure
<1> QED
  BY <1>2 DEF Sure

\* Inside a folder in which nothing is firm nothing is sure.
LEMMA NothingSureInside ==
  ASSUME place \in [Items -> Folders \cup {Away}], NEW d \in Items, NEW firm,
         \A k \in Items : place[k] = d => k \notin firm
  PROVE  Inside(d) \cap Sure(firm, place) = {}
<1>1. \A k \in Inside(d) : k \in Items /\ (place[k] = d \/ place[k] \in Inside(d))
  BY InsideHasParents DEF Folders
<1>2. Inside(d) \in SUBSET Items
  BY <1>1
<1> QED
  BY <1>1, <1>2, ClosedIsUnsure
-----------------------------------------------------------------------------
(* The operations of the snapshot keep it faithful.                         *)

\* A snapshot stays faithful while the drive decides the places of more items.
LEMMA FaithfulToLess ==
  ASSUME NEW s, NEW firm, NEW pl, NEW firm2, NEW pl2, Faithful(s, firm, pl),
         \A k \in firm2 : k \in firm /\ pl2[k] = pl[k]
  PROVE  Faithful(s, firm2, pl2)
<1>1. Sure(firm2, pl2) \subseteq Sure(firm, pl)
  BY LessIsSure
<1>2. \A i \in Sure(firm2, pl2) : i \in firm2
  BY SureIsFirm
<1> QED
  BY <1>1, <1>2 DEF Faithful

\* Items that are not sure may be removed.
LEMMA RemovalIsFaithful ==
  ASSUME NEW s, NEW firm \in SUBSET Items, NEW pl, Faithful(s, firm, pl),
         NEW gone, gone \cap Sure(firm, pl) = {}
  PROVE  Faithful(RemoveAll(s, gone), firm, pl)
<1>1. \A j \in Items : RemoveAll(s, gone).parent[j] = IF j \in gone THEN Absent ELSE s.parent[j]
  BY DEF RemoveAll
<1>2. Absent \notin Folders /\ Sure(firm, pl) \subseteq Items
  BY DEF Sure, Absent
<1> QED
  BY <1>1, <1>2 DEF Faithful

\* No orphan is sure.
LEMMA OrphansAreUnsure ==
  ASSUME NEW s, NEW firm, NEW pl \in [Items -> Folders \cup {Away}], Faithful(s, firm, pl),
         NEW i \in Sure(firm, pl)
  PROVE  ~Orphan(s, i)
<1>1. ASSUME NEW T \in SUBSET Items, i \in T,
             \A k \in T : s.parent[k] \in T \cup {Absent, Unknown}
      PROVE  FALSE
  <2> DEFINE U == (Items \ Sure(firm, pl)) \cup T
  <2>1. ASSUME NEW k \in U PROVE k \notin firm \/ pl[k] \in U \cup {Away}
    <3>1. CASE k \notin Sure(firm, pl)
      BY <3>1, UnsureIsClosed
    <3>2. CASE k \in Sure(firm, pl)
      <4>1. k \in T /\ s.parent[k] = pl[k]
        BY <3>2 DEF Faithful
      <4>2. pl[k] \in Folders
        BY <3>2, SureHasParent DEF Sure, Folders
      <4>3. pl[k] \in T
        BY <4>1, <4>2, <1>1 DEF Absent, Unknown
      <4> QED
        BY <4>3
    <3> QED
      BY <3>1, <3>2
  <2>2. U \cap Sure(firm, pl) = {}
    BY <2>1, ClosedIsUnsure
  <2> QED
    BY <2>2, <1>1
<1> QED
  BY <1>1 DEF Orphan

\* Removing the orphans keeps the snapshot faithful.
LEMMA RemoveOrphansIsFaithful ==
  ASSUME NEW s, NEW firm \in SUBSET Items, NEW pl \in [Items -> Folders \cup {Away}],
         Faithful(s, firm, pl)
  PROVE  Faithful(RemoveOrphans(s), firm, pl)
<1>1. {i \in Known(s) : Orphan(s, i)} \cap Sure(firm, pl) = {}
  BY OrphansAreUnsure
<1> QED
  BY <1>1, RemovalIsFaithful DEF RemoveOrphans

\* A listing into an empty snapshot is faithful, whatever is still to come.
LEMMA ListingIsFaithful ==
  ASSUME place \in [Items -> Folders \cup {Away}], NEW firm \in SUBSET Items
  PROVE  Faithful(RemoveOrphans(ListInto(EmptySnapshot, Inside(Root))), firm, place)
<1> DEFINE s == ListInto(EmptySnapshot, Inside(Root))
<1>1. \A j \in Items : s.parent[j] = IF j \in Inside(Root) THEN place[j] ELSE Absent
  BY DEF ListInto, EmptySnapshot
<1>2. Absent \notin Folders /\ Sure(firm, place) \subseteq Items
  BY DEF Absent, Sure
<1>3. Faithful(s, firm, place)
  BY <1>1, <1>2, SureIsOnDrive DEF Faithful
<1> QED
  BY <1>3, RemoveOrphansIsFaithful

\* The parents after updateItem. A parent that is not known yet becomes an item
\* without one.
LEMMA UpdatedParents ==
  ASSUME NEW s, IsTree(s), NEW d \in Items, NEW p \in Folders, NEW j \in Items
  PROVE  UpdateItem(s, d, p).parent[j] =
            IF j = d THEN p
            ELSE IF j = p /\ s.parent[j] = Absent THEN Unknown
            ELSE s.parent[j]
<1>1. CASE s.parent[d] = p
  <2>1. p \in Items => s.parent[p] # Absent
    BY <1>1 DEF IsTree, Known
  <2> QED
    BY <1>1, <2>1 DEF UpdateItem
<1>2. CASE s.parent[d] # p
  BY <1>2 DEF UpdateItem
<1> QED
  BY <1>1, <1>2

\* An update to where the drive has the item keeps the snapshot faithful, if nothing
\* is sure inside an item that becomes firm.
LEMMA UpdateIsFaithful ==
  ASSUME NEW s, IsTree(s), NEW d \in Items, NEW p \in Folders, NEW pl,
         NEW firm \in SUBSET Items, NEW firm2 \in SUBSET Items,
         Faithful(s, firm, pl), firm2 \subseteq firm \cup {d}, d \in firm2 => pl[d] = p,
         Sure(firm2, pl) \subseteq Sure(firm, pl) \cup {d},
         \A i \in Sure(firm2, pl) : pl[i] \in Folders
  PROVE  Faithful(UpdateItem(s, d, p), firm2, pl)
<1> DEFINE t == UpdateItem(s, d, p)
<1>0. Absent \notin Folders /\ Unknown \notin Folders
  BY DEF Absent, Unknown
<1>1. \A j \in Items : t.parent[j] = IF j = d THEN p
                                     ELSE IF j = p /\ s.parent[j] = Absent THEN Unknown
                                     ELSE s.parent[j]
  BY UpdatedParents
<1>2. ASSUME NEW i \in firm2, t.parent[i] \in Folders PROVE t.parent[i] = pl[i]
  BY <1>0, <1>1, <1>2 DEF Faithful
<1>3. ASSUME NEW i \in Sure(firm2, pl) PROVE t.parent[i] = pl[i]
  <2>1. i \in Items /\ i \in firm2
    BY SureIsFirm
  <2>2. CASE i = d
    BY <2>1, <2>2, <1>1
  <2>3. CASE i # d
    <3>1. s.parent[i] = pl[i]
      BY <2>3 DEF Faithful
    <3> QED
      BY <2>1, <2>3, <3>1, <1>0, <1>1
  <2> QED
    BY <2>2, <2>3
<1> QED
  BY <1>2, <1>3 DEF Faithful

\* An update followed by the listing of what is inside keeps the snapshot faithful.
LEMMA ExplorationIsFaithful ==
  ASSUME place \in [Items -> Folders \cup {Away}],
         NEW s, IsTree(s), NEW d \in Items, NEW p \in Folders,
         NEW firm \in SUBSET Items, NEW firm2 \in SUBSET Items,
         Faithful(s, firm, place), firm2 \subseteq firm \cup {d}, d \in firm2 => place[d] = p
  PROVE  Faithful(ListInto(UpdateItem(s, d, p), Inside(d)), firm2, place)
<1> DEFINE t == ListInto(UpdateItem(s, d, p), Inside(d))
<1>0. Absent \notin Folders /\ Unknown \notin Folders
  BY DEF Absent, Unknown
<1>1. \A j \in Items : t.parent[j] = IF j \in Inside(d) THEN place[j]
                                     ELSE IF j = d THEN p
                                     ELSE IF j = p /\ s.parent[j] = Absent THEN Unknown
                                     ELSE s.parent[j]
  BY UpdatedParents DEF ListInto
<1>2. ASSUME NEW i \in firm2, t.parent[i] \in Folders PROVE t.parent[i] = place[i]
  BY <1>0, <1>1, <1>2 DEF Faithful
<1>3. ASSUME NEW i \in Sure(firm2, place) PROVE t.parent[i] = place[i]
  <2>1. i \in Items /\ i \in firm2 /\ place[i] \in Folders
    BY SureIsFirm, SureHasParent DEF Sure, Folders
  <2>2. i \in Sure(firm, place) \cup {d} \cup Inside(d)
    BY NewlySure
  <2>3. CASE i \in Inside(d)
    BY <2>1, <2>3, <1>1
  <2>4. CASE i = d
    BY <2>1, <2>4, <1>1
  <2>5. CASE i \in Sure(firm, place) /\ i # d /\ i \notin Inside(d)
    <3>1. s.parent[i] = place[i]
      BY <2>5 DEF Faithful
    <3> QED
      BY <2>1, <2>5, <3>1, <1>0, <1>1
  <2> QED
    BY <2>2, <2>3, <2>4, <2>5
<1> QED
  BY <1>2, <1>3 DEF Faithful

\* The removal of an item that something was left to decide, and that the drive does
\* not have if nothing decides it any more, keeps the snapshot faithful: no sure item
\* is below it.
LEMMA RemoveItemIsFaithful ==
  ASSUME NEW s, IsTree(s), NEW d \in Items, NEW pl \in [Items -> Folders \cup {Away}],
         NEW firm \in SUBSET Items, NEW firm2 \in SUBSET Items, Faithful(s, firm, pl),
         d \notin firm, firm2 \subseteq firm \cup {d}, d \in firm2 => pl[d] = Away
  PROVE  Faithful(RemoveItem(s, d), firm2, pl)
<1> DEFINE N == Items \ Sure(firm, pl)
<1>0. d \in N /\ Absent \notin Folders /\ Sure(firm, pl) \subseteq Items
  BY SureIsFirm DEF Absent, Sure
<1>1. Sure(firm2, pl) \subseteq Sure(firm, pl)
  <2>1. \A k \in N : k \notin firm2 \/ pl[k] \in N \cup {Away}
    BY UnsureIsClosed
  <2>2. N \cap Sure(firm2, pl) = {}
    BY <2>1, ClosedIsUnsure
  <2> QED
    BY <2>2 DEF Sure
<1>2. ASSUME NEW k \in N PROVE s.children[k] \subseteq N
  <2>1. k \in Folders /\ k # Root
    BY DEF Folders
  <2>2. ASSUME NEW c \in s.children[k] PROVE c \in N
    <3>1. c \in Items /\ s.parent[c] = k
      BY <2>1 DEF IsTree
    <3>2. c \in Sure(firm, pl) => pl[c] = k /\ pl[c] \in Sure(firm, pl) \cup {Root}
      BY <3>1, SureHasParent DEF Faithful
    <3> QED
      BY <3>1, <3>2, <2>1
  <2> QED
    BY <2>2
<1>3. Below(s, d) \subseteq N
  BY <1>0, <1>2 DEF Below
<1>4. \A j \in Items : RemoveItem(s, d).parent[j] \in {s.parent[j], Absent}
  BY DEF RemoveItem, RemoveAll
<1>5. RemoveItem(s, d).parent[d] = Absent
  BY DEF RemoveItem, RemoveAll, Known
<1>6. ASSUME NEW i \in firm2, RemoveItem(s, d).parent[i] \in Folders
      PROVE  RemoveItem(s, d).parent[i] = pl[i]
  BY <1>0, <1>4, <1>5, <1>6 DEF Faithful
<1>7. ASSUME NEW i \in Sure(firm2, pl) PROVE RemoveItem(s, d).parent[i] = pl[i]
  <2>1. i \in Sure(firm, pl) /\ i \in Items
    BY <1>0, <1>1
  <2>2. i \notin {d} \cup Below(s, d)
    BY <2>1, <1>0, <1>3
  <2>3. RemoveItem(s, d).parent[i] = s.parent[i]
    BY <2>1, <2>2 DEF RemoveItem, RemoveAll
  <2> QED
    BY <2>1, <2>3 DEF Faithful
<1> QED
  BY <1>6, <1>7 DEF Faithful

\* A snapshot that is faithful when every item is firm shows the drive.
LEMMA FaithfulIsTheDrive ==
  ASSUME place \in [Items -> Folders \cup {Away}], NEW s \in Snapshots, Faithful(s, Items, place)
  PROVE  SeenTree(s) = DriveTree
<1>0. /\ Absent \notin Folders /\ Unknown \notin Folders /\ Away \notin Folders /\ Root \notin Items
      /\ s.parent \in [Items -> Folders \cup {Absent, Unknown}]
  BY DEF Snapshots, Absent, Unknown, Away
<1>1. Inside(Root) = Sure(Items, place)
  <2>1. Items \ {Root} = Items /\ {Root, Away} \ {Root} = {Away}
    BY <1>0 DEF Folders
  <2>2. Inside(Root) = {i \in Items : \A T \in SUBSET Items :
                          i \in T => \E k \in T : place[k] \notin T \cup {Away}}
    BY <2>1 DEF Inside
  <2>3. ASSUME NEW i \in Items
        PROVE  (\A T \in SUBSET Items : i \in T => \E k \in T : place[k] \notin T \cup {Away})
            <=> (\A T \in SUBSET Items :
                    i \in T => \E k \in T : k \in Items /\ place[k] \notin T \cup {Away})
    OBVIOUS
  <2> QED
    BY <2>2, <2>3 DEF Sure
<1>2. ASSUME NEW i \in Items
      PROVE  (IF Orphan(s, i) THEN Absent ELSE s.parent[i]) = (IF OnDrive(i) THEN place[i] ELSE Absent)
  <2>1. CASE i \in Sure(Items, place)
    <3>1. ~Orphan(s, i) /\ OnDrive(i)
      BY <2>1, <1>1, OrphansAreUnsure DEF OnDrive
    <3> QED
      BY <2>1, <3>1 DEF Faithful
  <2>2. CASE i \notin Sure(Items, place)
    <3>1. PICK T \in SUBSET Items : i \in T /\ \A k \in T : place[k] \in T \cup {Away}
      BY <2>2 DEF Sure
    <3>2. ASSUME NEW k \in T PROVE s.parent[k] \in T \cup {Absent, Unknown}
      BY <3>1, <1>0 DEF Faithful
    <3>3. Orphan(s, i)
      BY <3>1, <3>2 DEF Orphan
    <3>4. ~OnDrive(i)
      BY <2>2, <1>0, <1>1 DEF OnDrive
    <3> QED
      BY <3>3, <3>4
  <2> QED
    BY <2>1, <2>2
<1> QED
  BY <1>2 DEF SeenTree, DriveTree
-----------------------------------------------------------------------------
(***************************************************************************)
(* The inductive invariant.                                                *)
(***************************************************************************)
\* While a page is applied, the actions up to At are; else the next request asks for
\* what follows the cursor in the database.
Reading == pc \in {"act", "stuck"}
At == IF Reading THEN cursor - Len(page) ELSE stored

\* The snapshot is that of the actions up to At. It is not when a stop has dropped the
\* rest of a page; it is then emptied before anything else happens.
Trusted == \/ valid /\ ~(stopAsked /\ pc = "loop")
           \/ pc = "filled"

MovesOut(a) == a.code = "moveOut" /\ a.item \in Movers

\* Every item is in a folder meant for it, and the log says so.
PlacesKept ==
    /\ \A i \in Items : place[i] \in Places[i] \cup {Away}
    /\ \A n \in DOMAIN log :
        log[n].code \in InCodes \cup {"edit"} => log[n].parent \in Places[log[n].item]
SnapKept(s) == \A i \in Items : s.parent[i] \in Places[i] \cup {Absent, Unknown}

\* The last action that decides tells where its item is, and an edit after it too.
LogTellsPlaces ==
    \A n \in DOMAIN log : log[n].item \in Firm(log, n) =>
        /\ log[n].code \in InCodes \cup {"edit"} => place[log[n].item] = log[n].parent
        /\ Decides(log[n]) /\ log[n].code \in OutCodes => place[log[n].item] = Away

\* What is in a folder that was created has come since.
CreatedEmpty ==
    \A n \in DOMAIN log : log[n].code = "create" =>
        \A k \in Items : place[k] = log[n].item => k \notin Firm(log, n)

\* A move out follows its move in; the codes are those the users may cause.
MovesInPairs ==
    \A n \in DOMAIN log :
        /\ MovesOut(log[n]) => /\ n - 1 \in DOMAIN log
                               /\ log[n - 1].code = "moveIn" /\ log[n - 1].item = log[n].item
        /\ log[n].code = "moveIn" => log[n].item \in Movers
        /\ log[n].code = "revoke" => log[n].item \notin Movers
        /\ log[n].code = "grant" => "grant" \in May[log[n].item]
LogInv == PlacesKept /\ LogTellsPlaces /\ CreatedEmpty /\ MovesInPairs

\* A page is the part of the log before the cursor, and a move out in it finds its
\* move in among the moved items.
PageInv ==
    Reading =>
        /\ cursor = stored /\ Len(page) <= cursor
        /\ \A k \in DOMAIN page : page[k] = log[cursor - Len(page) + k]
        /\ page # <<>> /\ MovesOut(Head(page)) => Head(page).item \in moved

\* The cursor does not part a move; a listing begins with an empty snapshot, which
\* nobody empties before it is declared valid.
WholePair(n) == n + 1 \in DOMAIN log => ~MovesOut(log[n + 1])
ReaderInv ==
    /\ pc \in {"poll", "fetch"} => cursor = stored
    /\ WholePair(stored)
    /\ moved \subseteq Movers
    /\ pc = "list" => snap = EmptySnapshot
    /\ pc \in {"list", "filled"} => ~valid /\ ~toInit

CaughtUp == Trusted => Faithful(snap, Firm(log, At), place)
CatchUpInv == LogInv /\ SnapKept(snap) /\ PageInv /\ ReaderInv /\ CaughtUp

\* The log is not touched by who reads it.
LEMMA LogUntouched ==
  ASSUME LogInv, UNCHANGED <<place, log>>
  PROVE  LogInv'
  BY DEF LogInv, PlacesKept, LogTellsPlaces, CreatedEmpty, MovesInPairs, Firm, Decides, MovesOut

\* The operations of the snapshot keep the items in the folders meant for them.
LEMMA OperationsKeepPlaces ==
  ASSUME NEW s \in Snapshots, SnapKept(s)
  PROVE  /\ \A gone : SnapKept(RemoveAll(s, gone))
         /\ SnapKept(RemoveOrphans(s))
         /\ \A i \in Items : SnapKept(RemoveItem(s, i))
         /\ \A i \in Items, p \in Folders : p \in Places[i] => SnapKept(UpdateItem(s, i, p))
         /\ \A d \in Folders : PlacesKept /\ place \in [Items -> Folders \cup {Away}]
                => SnapKept(ListInto(s, Inside(d)))
<1>1. \A gone : SnapKept(RemoveAll(s, gone))
  BY DEF SnapKept, RemoveAll
<1>2. SnapKept(RemoveOrphans(s))
  BY <1>1 DEF RemoveOrphans
<1>3. \A i \in Items : SnapKept(RemoveItem(s, i))
  BY <1>1 DEF RemoveItem
<1>4. \A i \in Items, p \in Folders : p \in Places[i] => SnapKept(UpdateItem(s, i, p))
  BY DEF SnapKept, UpdateItem
<1>5. ASSUME NEW d \in Folders, PlacesKept, place \in [Items -> Folders \cup {Away}]
      PROVE  SnapKept(ListInto(s, Inside(d)))
  <2>1. \A j \in Inside(d) : j \in Items /\ place[j] \in Places[j]
    BY <1>5, InsideHasParents DEF PlacesKept
  <2> QED
    BY <2>1 DEF SnapKept, ListInto
<1> QED
  BY <1>1, <1>2, <1>3, <1>4, <1>5
LEMMA EmptyKept == SnapKept(EmptySnapshot)
  BY DEF SnapKept, EmptySnapshot
-----------------------------------------------------------------------------
(***************************************************************************)
(* The drive goes on: one or two actions about one item are logged.        *)
(***************************************************************************)
\* What the first action says of the item; the second can only be the end of a move.
Tells(entries, i) ==
    /\ entries[1].item = i /\ ~MovesOut(entries[1])
    /\ entries[1].code \in InCodes \cup {"edit"} =>
            place'[i] = entries[1].parent /\ entries[1].parent \in Places[i]
    /\ entries[1].code \in OutCodes => place'[i] = Away
    /\ entries[1].code = "edit" => place'[i] = place[i]
    /\ entries[1].code # "edit" => Decides(entries[1])
    /\ entries[1].code = "create" => \A k \in Items \ {i} : place[k] # i
    /\ entries[1].code = "moveIn" => i \in Movers
    /\ entries[1].code = "revoke" => i \notin Movers
    /\ entries[1].code = "grant" => "grant" \in May[i]
    /\ Len(entries) = 2 => /\ entries[2].item = i /\ entries[2].code = "moveOut"
                      /\ entries[1].code = "moveIn" /\ i \in Movers

\* The log keeps telling the places, and no item becomes firm.
LEMMA LogGrows ==
  ASSUME Inv, LogInv, place' \in [Items -> Folders \cup {Away}],
         NEW i \in Items, NEW entries \in Seq(Actions), Len(entries) \in 1 .. 2, log' = log \o entries,
         \A k \in Items \ {i} : place'[k] = place[k], place'[i] \in Places[i] \cup {Away},
         Tells(entries, i)
  PROVE  /\ LogInv'
         /\ \A n \in Int : n <= Len(log) =>
                \A k \in Firm(log', n) : k \in Firm(log, n) /\ place'[k] = place[k]
         /\ \A n \in Int : n <= Len(log) /\ WholePair(n) => WholePair(n)'
<1>a. log \in Seq(Actions) /\ Len(log) \in Nat /\ DOMAIN log = 1 .. Len(log) /\ Len(entries) \in {1, 2}
  <2>1. log \in Seq(Actions)
    BY DEF Inv, TypeOK
  <2>2. Len(log) \in Nat /\ DOMAIN log = 1 .. Len(log)
    BY <2>1, LenProperties
  <2>3. Len(entries) \in {1, 2}
    OBVIOUS
  <2> QED
    BY <2>1, <2>2, <2>3
<1> DEFINE L == Len(log)
           N == Len(entries)
<1>b. /\ log' \in Seq(Actions) /\ Len(log') = L + N
      /\ \A n \in 1 .. L + N : log'[n] = IF n <= L THEN log[n] ELSE entries[n - L]
  <2>1. /\ log \o entries \in Seq(Actions) /\ Len(log \o entries) = Len(log) + Len(entries)
        /\ \A n \in 1 .. Len(log) + Len(entries) :
              (log \o entries)[n] = IF n <= Len(log) THEN log[n] ELSE entries[n - Len(log)]
    BY <1>a, ConcatProperties
  <2> QED
    BY <2>1
<1>c. L \in Nat /\ N \in {1, 2} /\ DOMAIN log = 1 .. L /\ DOMAIN log' = 1 .. L + N
  BY <1>a, <1>b, LenProperties
<1> HIDE DEF L, N
<1>d. \A n \in 1 .. L : n \in 1 .. L + N /\ log'[n] = log[n]
  BY <1>b, <1>c
<1>e. L + 1 \in 1 .. L + N /\ log'[L + 1] = entries[1]
  <2>1. L + 1 \in 1 .. L + N /\ ~(L + 1 <= L) /\ (L + 1) - L = 1
    BY <1>c
  <2> QED
    BY <2>1, <1>b
<1>f. N = 2 => L + 2 \in 1 .. L + N /\ log'[L + 2] = entries[2]
  <2> SUFFICES ASSUME N = 2 PROVE L + 2 \in 1 .. L + N /\ log'[L + 2] = entries[2]
    OBVIOUS
  <2>1. L + 2 \in 1 .. L + N /\ ~(L + 2 <= L) /\ (L + 2) - L = 2
    BY <1>c
  <2> QED
    BY <2>1, <1>b
<1>g. \A n \in 1 .. L + N : n \in 1 .. L \/ n = L + 1 \/ (n = L + 2 /\ N = 2)
  BY <1>c
<1>0. /\ log \in Seq(Actions) /\ L \in Nat /\ L = Len(log) /\ N = Len(entries) /\ DOMAIN log = 1 .. L
      /\ \A n \in DOMAIN log : log'[n] = log[n]
      /\ log'[L + 1] = entries[1]
      /\ Len(entries) = 2 => log'[L + 2] = entries[2]
  BY <1>a, <1>c, <1>d, <1>e, <1>f DEF L, N
<1>1. /\ DOMAIN log \subseteq DOMAIN log' /\ L + 1 \in DOMAIN log'
      /\ \A n \in DOMAIN log' : n \in DOMAIN log \/ n = L + 1 \/ (n = L + 2 /\ Len(entries) = 2)
  BY <1>c, <1>d, <1>e, <1>g DEF N
<1>2. ASSUME NEW n \in Int, n <= Len(log), NEW k \in Firm(log', n)
      PROVE  k \in Firm(log, n) /\ place'[k] = place[k]
  <2>1. k \in Items /\ \A m \in DOMAIN log' : m > n /\ log'[m].item = k => ~Decides(log'[m])
    BY <1>2 DEF Firm
  <2>2. k \in Firm(log, n)
    BY <2>1, <1>0, <1>1 DEF Firm
  <2>3. k = i => entries[1].code = "edit"
    <3>1. L + 1 > n
      BY <1>0, <1>2
    <3> QED
      BY <2>1, <3>1, <1>0, <1>1 DEF Tells
  <2>4. place'[k] = place[k]
    BY <2>1, <2>3 DEF Tells
  <2> QED
    BY <2>2, <2>4
<1>3. PlacesKept'
  <2>1. \A k \in Items : place'[k] \in Places[k] \cup {Away}
    BY DEF LogInv, PlacesKept
  <2>2. ASSUME NEW n \in DOMAIN log', log'[n].code \in InCodes \cup {"edit"}
        PROVE  log'[n].parent \in Places[log'[n].item]
    <3>1. CASE n \in DOMAIN log
      BY <3>1, <2>2, <1>0 DEF LogInv, PlacesKept
    <3>2. CASE n = L + 1
      BY <3>2, <2>2, <1>0 DEF Tells
    <3>3. CASE n = L + 2 /\ Len(entries) = 2
      BY <3>3, <2>2, <1>0 DEF Tells, InCodes
    <3> QED
      BY <3>1, <3>2, <3>3, <1>1
  <2> QED
    BY <2>1, <2>2 DEF PlacesKept
<1>4. LogTellsPlaces'
  <2> SUFFICES ASSUME NEW n \in DOMAIN log', log'[n].item \in Firm(log', n)
               PROVE  /\ log'[n].code \in InCodes \cup {"edit"} => place'[log'[n].item] = log'[n].parent
                      /\ Decides(log'[n]) /\ log'[n].code \in OutCodes => place'[log'[n].item] = Away
    BY DEF LogTellsPlaces, Firm, Decides
  <2>1. CASE n \in DOMAIN log
    <3>1. log'[n] = log[n] /\ n \in Int /\ n <= Len(log)
      BY <2>1, <1>0
    <3>2. log[n].item \in Firm(log, n) /\ place'[log[n].item] = place[log[n].item]
      BY <3>1, <1>2
    <3> QED
      BY <2>1, <3>1, <3>2 DEF LogInv, LogTellsPlaces
  <2>2. CASE n = L + 1
    BY <2>2, <1>0 DEF Tells
  <2>3. CASE n = L + 2 /\ Len(entries) = 2
    BY <2>3, <1>0 DEF Tells, InCodes, Decides
  <2> QED
    BY <2>1, <2>2, <2>3, <1>1
<1>5. CreatedEmpty'
  <2> SUFFICES ASSUME NEW n \in DOMAIN log', log'[n].code = "create",
                      NEW k \in Items, place'[k] = log'[n].item, k \in Firm(log', n)
               PROVE  FALSE
    BY DEF CreatedEmpty, Firm, Decides
  <2>1. CASE n \in DOMAIN log
    <3>1. log'[n] = log[n] /\ n \in Int /\ n <= Len(log)
      BY <2>1, <1>0
    <3>2. k \in Firm(log, n) /\ place'[k] = place[k]
      BY <3>1, <1>2
    <3> QED
      BY <2>1, <3>1, <3>2 DEF LogInv, CreatedEmpty
  <2>2. CASE n = L + 1
    <3>1. entries[1].code = "create" /\ place'[k] = i
      BY <2>2, <1>0 DEF Tells
    <3>2. CASE k = i
      BY <3>1, <3>2 DEF Folders
    <3>3. CASE k # i
      BY <3>1, <3>3 DEF Tells
    <3> QED
      BY <3>2, <3>3
  <2>3. CASE n = L + 2 /\ Len(entries) = 2
    BY <2>3, <1>0 DEF Tells
  <2> QED
    BY <2>1, <2>2, <2>3, <1>1
<1>6. MovesInPairs'
  <2> SUFFICES ASSUME NEW n \in DOMAIN log'
               PROVE  /\ MovesOut(log'[n]) => /\ n - 1 \in DOMAIN log'
                                              /\ log'[n - 1].code = "moveIn"
                                              /\ log'[n - 1].item = log'[n].item
                      /\ log'[n].code = "moveIn" => log'[n].item \in Movers
                      /\ log'[n].code = "revoke" => log'[n].item \notin Movers
                      /\ log'[n].code = "grant" => "grant" \in May[log'[n].item]
    BY DEF MovesInPairs, MovesOut
  <2>1. CASE n \in DOMAIN log
    <3>1. log'[n] = log[n]
      BY <2>1, <1>0
    <3>2. n - 1 \in DOMAIN log => n - 1 \in DOMAIN log' /\ log'[n - 1] = log[n - 1]
      BY <1>0, <1>1
    <3> QED
      BY <2>1, <3>1, <3>2 DEF LogInv, MovesInPairs
  <2>2. CASE n = L + 1
    BY <2>2, <1>0 DEF Tells
  <2>3. CASE n = L + 2 /\ Len(entries) = 2
    <3>1. log'[n] = entries[2] /\ n - 1 = L + 1
      BY <2>3, <1>0
    <3> QED
      BY <2>3, <3>1, <1>0, <1>1 DEF Tells
  <2> QED
    BY <2>1, <2>2, <2>3, <1>1
<1>7. ASSUME NEW n \in Int, n <= Len(log), WholePair(n), n + 1 \in DOMAIN log'
      PROVE  ~MovesOut(log'[n + 1])
  <2>1. CASE n + 1 \in DOMAIN log
    BY <2>1, <1>0, <1>7 DEF WholePair
  <2>2. CASE n = L
    BY <2>2, <1>0 DEF Tells
  <2>3. n + 1 \in DOMAIN log \/ n = L
    BY <1>0, <1>1, <1>7
  <2> QED
    BY <2>1, <2>2, <2>3
<1> QED
  BY <1>2, <1>3, <1>4, <1>5, <1>6, <1>7 DEF LogInv, WholePair, MovesOut

\* So the rest of the invariant stays, if nothing but the drive has changed.
LEMMA DriveKeeps ==
  ASSUME Inv, CatchUpInv, place' \in [Items -> Folders \cup {Away}],
         NEW i \in Items, NEW entries \in Seq(Actions), Len(entries) \in 1 .. 2, log' = log \o entries,
         \A k \in Items \ {i} : place'[k] = place[k], place'[i] \in Places[i] \cup {Away},
         Tells(entries, i),
         UNCHANGED <<snap, valid>>, UNCHANGED <<pc, toInit, stopAsked>>,
         UNCHANGED <<cursor, page, moved, stored>>
  PROVE  CatchUpInv'
<1>0. LogInv /\ SnapKept(snap) /\ PageInv /\ ReaderInv /\ CaughtUp
  BY DEF CatchUpInv
<1>1. /\ log \in Seq(Actions) /\ Len(log) \in Nat /\ page \in Seq(Actions) /\ Len(page) \in Nat
      /\ cursor \in Int /\ stored \in Int /\ cursor <= Len(log) /\ stored <= Len(log)
      /\ DOMAIN log = 1 .. Len(log) /\ \A n \in 1 .. Len(log) : log'[n] = log[n]
      /\ DOMAIN page = 1 .. Len(page)
  BY ConcatProperties, LenProperties DEF Inv, TypeOK, NoCursor
<1>2. /\ LogInv'
      /\ \A n \in Int : n <= Len(log) =>
                \A k \in Firm(log', n) : k \in Firm(log, n) /\ place'[k] = place[k]
      /\ \A n \in Int : n <= Len(log) /\ WholePair(n) => WholePair(n)'
  BY <1>0, LogGrows
<1>3. SnapKept(snap)'
  BY <1>0 DEF SnapKept
<1>4. PageInv'
  <2> SUFFICES ASSUME Reading
               PROVE  /\ cursor = stored /\ Len(page) <= cursor
                      /\ \A k \in DOMAIN page : page[k] = log'[cursor - Len(page) + k]
                      /\ page # <<>> /\ MovesOut(Head(page)) => Head(page).item \in moved
    BY DEF PageInv, Reading, MovesOut
  <2>1. \A k \in DOMAIN page : cursor - Len(page) + k \in 1 .. Len(log)
    BY <1>0, <1>1 DEF PageInv
  <2> QED
    BY <2>1, <1>0, <1>1 DEF PageInv
<1>5. ReaderInv'
  BY <1>0, <1>1, <1>2 DEF ReaderInv, WholePair
<1>6. CaughtUp'
  <2>1. At \in Int /\ At <= Len(log) /\ At' = At
    BY <1>1 DEF At, Reading
  <2>2. ASSUME Trusted PROVE Faithful(snap, Firm(log', At), place')
    <3>1. Faithful(snap, Firm(log, At), place)
      BY <1>0, <2>2 DEF CaughtUp
    <3> QED
      BY <3>1, <2>1, <1>2, FaithfulToLess
  <2>3. Trusted' <=> Trusted
    BY DEF Trusted
  <2> QED
    BY <2>1, <2>2, <2>3 DEF CaughtUp, Faithful, Sure, Firm, Decides
<1> QED
  BY <1>2, <1>3, <1>4, <1>5, <1>6 DEF CatchUpInv

\* What a directory that is created may have in it: nothing.
LEMMA NothingInside ==
  ASSUME place \in [Items -> Folders \cup {Away}], NEW i \in Items, Inside(i) = {}
  PROVE  \A k \in Items \ {i} : place[k] # i
  BY InsideHasChildren

\* Action DriveIn keeps the invariant.
LEMMA DriveInCatchesUp ==
  ASSUME Expected, Inv, CatchUpInv,
         NEW c \in InCodes, NEW i \in Items, NEW p \in Folders, DriveIn(c, i, p)
  PROVE  CatchUpInv'
<1> DEFINE entries == <<Action(c, i, p)>>
<1>1. /\ entries \in Seq(Actions) /\ Len(entries) = 1
      /\ entries[1] = [code |-> c, item |-> i, parent |-> p]
  BY DEF Action, Actions, Codes
<1>2. place \in [Items -> Folders \cup {Away}] /\ place' = [place EXCEPT ![i] = p]
  BY DEF Inv, TypeOK, DriveIn
<1>3. c \in May[i] /\ p \in Places[i] /\ log' = log \o entries
  BY DEF DriveIn, Logs
<1>4. Tells(entries, i)
  <2>1. Decides(entries[1]) /\ ~MovesOut(entries[1]) /\ c \notin OutCodes /\ c # "edit" /\ c # "revoke"
    BY <1>1 DEF Decides, MovesOut, InCodes, OutCodes
  <2>2. c = "moveIn" => i \in Movers
    BY <1>3 DEF Movers
  <2>3. c = "create" => \A k \in Items \ {i} : place[k] # i
    BY <1>2, NothingInside DEF DriveIn
  <2> QED
    BY <2>1, <2>2, <2>3, <1>1, <1>2, <1>3 DEF Tells
<1>5. /\ UNCHANGED <<snap, valid>> /\ UNCHANGED <<pc, toInit, stopAsked>>
      /\ UNCHANGED <<cursor, page, moved, stored>>
  BY DEF DriveIn, snapVars, workVars, restVars
<1>6. /\ place' \in [Items -> Folders \cup {Away}] /\ place'[i] \in Places[i] \cup {Away}
      /\ \A k \in Items \ {i} : place'[k] = place[k]
      /\ Len(entries) \in 1 .. 2 /\ entries \in Seq(Actions) /\ log' = log \o entries
  BY <1>1, <1>2, <1>3
<1> HIDE DEF entries
<1> QED
  BY <1>4, <1>5, <1>6, DriveKeeps

\* Action DriveOut keeps the invariant.
LEMMA DriveOutCatchesUp ==
  ASSUME Expected, Inv, CatchUpInv, NEW c \in OutCodes, NEW i \in Items, DriveOut(c, i)
  PROVE  CatchUpInv'
<1> DEFINE entries == <<Action(c, i, place[i])>>
<1>0. place \in [Items -> Folders \cup {Away}] /\ place' = [place EXCEPT ![i] = Away]
  BY DEF Inv, TypeOK, DriveOut
<1>1. place[i] \in Folders
  BY <1>0, InsideHasParents DEF DriveOut, OnDrive, Folders
<1>2. /\ entries \in Seq(Actions) /\ Len(entries) = 1
      /\ entries[1] = [code |-> c, item |-> i, parent |-> place[i]]
  BY <1>1 DEF Action, Actions, Codes
<1>3. c \in May[i] /\ log' = log \o entries
  BY DEF DriveOut, Logs
<1>4. Tells(entries, i)
  <2>1. c \notin InCodes \cup {"edit", "create", "grant", "moveIn"}
    BY DEF InCodes, OutCodes
  <2>2. c = "trash" \/ i \notin Movers
    BY <1>3 DEF Expected, OutCodes
  <2>3. Decides(entries[1]) /\ ~MovesOut(entries[1])
    BY <2>2, <1>2 DEF Decides, MovesOut, OutCodes
  <2> QED
    BY <2>1, <2>2, <2>3, <1>0, <1>2 DEF Tells
<1>5. /\ UNCHANGED <<snap, valid>> /\ UNCHANGED <<pc, toInit, stopAsked>>
      /\ UNCHANGED <<cursor, page, moved, stored>>
  BY DEF DriveOut, snapVars, workVars, restVars
<1>6. /\ place' \in [Items -> Folders \cup {Away}] /\ place'[i] \in Places[i] \cup {Away}
      /\ \A k \in Items \ {i} : place'[k] = place[k]
      /\ Len(entries) \in 1 .. 2 /\ entries \in Seq(Actions) /\ log' = log \o entries
  BY <1>0, <1>2, <1>3
<1> HIDE DEF entries
<1> QED
  BY <1>4, <1>5, <1>6, DriveKeeps

\* Action DriveMove keeps the invariant.
LEMMA DriveMoveCatchesUp ==
  ASSUME Expected, Inv, CatchUpInv, NEW i \in Items, NEW p \in Folders, DriveMove(i, p)
  PROVE  CatchUpInv'
<1> DEFINE entries == <<Action("moveIn", i, p), Action("moveOut", i, place[i])>>
<1>0. place \in [Items -> Folders \cup {Away}] /\ place' = [place EXCEPT ![i] = p]
  BY DEF Inv, TypeOK, DriveMove
<1>1. place[i] \in Folders
  BY <1>0, InsideHasParents DEF DriveMove, OnDrive, Folders
<1>2. /\ entries \in Seq(Actions) /\ Len(entries) = 2
      /\ entries[1] = [code |-> "moveIn", item |-> i, parent |-> p]
      /\ entries[2] = [code |-> "moveOut", item |-> i, parent |-> place[i]]
  BY <1>1 DEF Action, Actions, Codes, InCodes, OutCodes
<1>3. i \in Movers /\ p \in Places[i] /\ log' = log \o entries
  BY DEF DriveMove, Logs, Movers
<1>4. Tells(entries, i)
  BY <1>0, <1>2, <1>3 DEF Tells, Decides, MovesOut, InCodes, OutCodes
<1>5. /\ UNCHANGED <<snap, valid>> /\ UNCHANGED <<pc, toInit, stopAsked>>
      /\ UNCHANGED <<cursor, page, moved, stored>>
  BY DEF DriveMove, snapVars, workVars, restVars
<1>6. /\ place' \in [Items -> Folders \cup {Away}] /\ place'[i] \in Places[i] \cup {Away}
      /\ \A k \in Items \ {i} : place'[k] = place[k]
      /\ Len(entries) \in 1 .. 2 /\ entries \in Seq(Actions) /\ log' = log \o entries
  BY <1>0, <1>2, <1>3
<1> HIDE DEF entries
<1> QED
  BY <1>4, <1>5, <1>6, DriveKeeps

\* Action DriveEdit keeps the invariant.
LEMMA DriveEditCatchesUp ==
  ASSUME Expected, Inv, CatchUpInv, NEW i \in Items, DriveEdit(i)
  PROVE  CatchUpInv'
<1> DEFINE entries == <<Action("edit", i, place[i])>>
<1>0. place \in [Items -> Folders \cup {Away}] /\ place' = place
  BY DEF Inv, TypeOK, DriveEdit
<1>1. place[i] \in Folders /\ place[i] \in Places[i]
  BY <1>0, InsideHasParents DEF DriveEdit, OnDrive, Folders, CatchUpInv, LogInv, PlacesKept
<1>2. /\ entries \in Seq(Actions) /\ Len(entries) = 1
      /\ entries[1] = [code |-> "edit", item |-> i, parent |-> place[i]]
  BY <1>1 DEF Action, Actions, Codes
<1>3. log' = log \o entries
  BY DEF DriveEdit, Logs
<1>4. Tells(entries, i)
  BY <1>0, <1>1, <1>2 DEF Tells, MovesOut, OutCodes
<1>5. /\ UNCHANGED <<snap, valid>> /\ UNCHANGED <<pc, toInit, stopAsked>>
      /\ UNCHANGED <<cursor, page, moved, stored>>
  BY DEF DriveEdit, snapVars, workVars, restVars
<1>6. /\ place' \in [Items -> Folders \cup {Away}] /\ place'[i] \in Places[i] \cup {Away}
      /\ \A k \in Items \ {i} : place'[k] = place[k]
      /\ Len(entries) \in 1 .. 2 /\ entries \in Seq(Actions) /\ log' = log \o entries
  BY <1>0, <1>1, <1>2, <1>3
<1> HIDE DEF entries
<1> QED
  BY <1>4, <1>5, <1>6, DriveKeeps

\* Action Upload keeps the invariant: nothing is in a file.
LEMMA UploadCatchesUp ==
  ASSUME Expected, Inv, CatchUpInv, NEW i \in Items, NEW p \in Folders, Upload(i, p)
  PROVE  CatchUpInv'
<1> DEFINE entries == <<Action("create", i, p)>>
<1>1. /\ entries \in Seq(Actions) /\ Len(entries) = 1
      /\ entries[1] = [code |-> "create", item |-> i, parent |-> p]
  BY DEF Action, Actions, Codes, InCodes
<1>2. place \in [Items -> Folders \cup {Away}] /\ place' = [place EXCEPT ![i] = p]
  BY DEF Inv, TypeOK, Upload
<1>3. p \in Places[i] /\ log' = log \o entries /\ i \notin Dirs
  BY DEF Upload, Logs, Expected
<1>4. Tells(entries, i)
  <2>1. \A k \in Items : place[k] # i
    BY <1>3 DEF CatchUpInv, LogInv, PlacesKept, Folders
  <2> QED
    BY <2>1, <1>1, <1>2, <1>3 DEF Tells, Decides, MovesOut, InCodes, OutCodes
<1>5. /\ UNCHANGED <<snap, valid>> /\ UNCHANGED <<pc, toInit, stopAsked>>
      /\ UNCHANGED <<cursor, page, moved, stored>>
  BY DEF Upload, snapVars, workVars, restVars
<1>6. /\ place' \in [Items -> Folders \cup {Away}] /\ place'[i] \in Places[i] \cup {Away}
      /\ \A k \in Items \ {i} : place'[k] = place[k]
      /\ Len(entries) \in 1 .. 2 /\ entries \in Seq(Actions) /\ log' = log \o entries
  BY <1>1, <1>2, <1>3
<1> HIDE DEF entries
<1> QED
  BY <1>4, <1>5, <1>6, DriveKeeps
-----------------------------------------------------------------------------
(***************************************************************************)
(* The thread outside of a page, and the rest of the program.              *)
(***************************************************************************)
\* A step after which the snapshot is not trusted has only the reader to look after.
LEMMA Distrusted ==
  ASSUME CatchUpInv, UNCHANGED <<place, log>>, SnapKept(snap'), PageInv', ReaderInv', ~Trusted'
  PROVE  CatchUpInv'
  BY LogUntouched DEF CatchUpInv, CaughtUp, SnapKept

\* A step outside of a page that keeps the snapshot and the cursor in the database,
\* and does not begin to trust.
LEMMA Passage ==
  ASSUME CatchUpInv, UNCHANGED <<place, log>>, UNCHANGED <<snap, stored>>,
         ~Reading, ~Reading', ReaderInv', Trusted' => Trusted
  PROVE  CatchUpInv'
<1>1. LogInv' /\ SnapKept(snap)'
  BY LogUntouched DEF CatchUpInv, SnapKept
<1>2. PageInv'
  BY DEF PageInv
<1>3. At' = At
  BY DEF At
<1>4. CaughtUp'
  BY <1>3 DEF CatchUpInv, CaughtUp, Faithful, Sure, Firm, Decides
<1> QED
  BY <1>1, <1>2, <1>4 DEF CatchUpInv

\* A step that leaves the thread and what it reads alone.
LEMMA Bystander ==
  ASSUME CatchUpInv, UNCHANGED <<place, log>>, UNCHANGED <<snap, valid, pc>>,
         UNCHANGED <<cursor, page, moved, stored>>,
         toInit' => toInit \/ valid, stopAsked => stopAsked'
  PROVE  CatchUpInv'
<1>1. LogInv' /\ SnapKept(snap)'
  BY LogUntouched DEF CatchUpInv, SnapKept
<1>2. PageInv' /\ ReaderInv'
  BY DEF CatchUpInv, PageInv, ReaderInv, Reading, WholePair, MovesOut
<1>3. At' = At /\ (Trusted' => Trusted)
  BY DEF At, Reading, Trusted
<1>4. CaughtUp'
  BY <1>3 DEF CatchUpInv, CaughtUp, Faithful, Sure, Firm, Decides
<1> QED
  BY <1>1, <1>2, <1>4 DEF CatchUpInv

\* Action LoopTop keeps the invariant.
LEMMA LoopTopCatchesUp ==
  ASSUME Expected, Inv, CatchUpInv, LoopTop
  PROVE  CatchUpInv'
<1>0. /\ UNCHANGED <<place, log>> /\ UNCHANGED <<cursor, page, moved, stored>>
      /\ UNCHANGED <<stopAsked, toInit>> /\ pc = "loop"
  BY DEF LoopTop, driveVars, workVars, restVars
<1>1. CASE stopAsked /\ pc' = "off" /\ Invalidate
  <2>1. SnapKept(snap') /\ ~Trusted'
    BY <1>1, EmptyKept DEF Invalidate, Trusted, CatchUpInv
  <2>2. PageInv' /\ ReaderInv'
    BY <1>0, <1>1 DEF PageInv, ReaderInv, Reading, WholePair, MovesOut, CatchUpInv
  <2> QED
    BY <1>0, <2>1, <2>2, Distrusted
<1>2. CASE ~stopAsked /\ valid /\ pc' = "events" /\ UNCHANGED <<snap, valid>>
  <2>1. ReaderInv' /\ ~Reading /\ ~Reading' /\ (Trusted' => Trusted)
    BY <1>0, <1>2 DEF ReaderInv, Reading, WholePair, MovesOut, CatchUpInv, Trusted
  <2> QED
    BY <1>0, <1>2, <2>1, Passage
<1>3. CASE ~stopAsked /\ ~valid /\ pc' = "list" /\ (toInit => "preempted" \in Races)
           /\ snap' = EmptySnapshot /\ UNCHANGED valid
  <2>1. SnapKept(snap') /\ ~Trusted'
    BY <1>3, EmptyKept DEF Trusted
  <2>2. PageInv' /\ ReaderInv'
    BY <1>0, <1>3 DEF PageInv, ReaderInv, Reading, WholePair, MovesOut, CatchUpInv, Expected
  <2> QED
    BY <1>0, <2>1, <2>2, Distrusted
<1> QED
  BY <1>1, <1>2, <1>3 DEF LoopTop, snapVars

\* Action ListAnswered keeps the invariant: what was listed is the drive, whatever the
\* cursor in the database is.
LEMMA ListAnsweredCatchesUp ==
  ASSUME Expected, Inv, CatchUpInv, ListAnswered
  PROVE  CatchUpInv'
<1>0. /\ UNCHANGED <<place, log>> /\ UNCHANGED <<page, moved>> /\ UNCHANGED <<valid, toInit>>
      /\ pc = "list" /\ pc' = "filled" /\ snap = EmptySnapshot
  BY DEF ListAnswered, driveVars, restVars, CatchUpInv, ReaderInv
<1>1. place \in [Items -> Folders \cup {Away}] /\ EmptySnapshot \in Snapshots
  BY EmptyIsTree DEF Inv, TypeOK, IsTree
<1>2. SnapKept(snap')
  <2>1. SnapKept(ListInto(EmptySnapshot, Inside(Root))) /\ IsTree(ListInto(EmptySnapshot, Inside(Root)))
    BY <1>1, EmptyKept, EmptyIsTree, OperationsKeepPlaces, ListKeepsTree DEF CatchUpInv, LogInv, Folders
  <2>2. SnapKept(RemoveOrphans(ListInto(EmptySnapshot, Inside(Root))))
    BY <2>1, OperationsKeepPlaces DEF IsTree
  <2> QED
    BY <2>2, <1>0 DEF ListAnswered
<1>3. LogInv' /\ PageInv'
  BY <1>0, LogUntouched DEF CatchUpInv, PageInv, Reading
<1>4. ReaderInv'
  <2>1. WholePair(stored')
    <3>1. stored' = stored \/ stored' = Len(log)
      BY DEF ListAnswered
    <3>2. Len(log) + 1 \notin DOMAIN log
      BY LenProperties DEF Inv, TypeOK
    <3> QED
      BY <3>1, <3>2 DEF WholePair, CatchUpInv, ReaderInv
  <2> QED
    BY <2>1, <1>0 DEF CatchUpInv, ReaderInv, WholePair
<1>5. CaughtUp'
  <2>1. Firm(log, At') \in SUBSET Items
    BY DEF Firm
  <2>2. Faithful(RemoveOrphans(ListInto(EmptySnapshot, Inside(Root))), Firm(log, At'), place)
    BY <2>1, <1>1, ListingIsFaithful
  <2>3. Faithful(snap', Firm(log, At'), place)
    BY <2>2, <1>0 DEF ListAnswered
  <2> QED
    BY <2>3, <1>0 DEF CaughtUp, Faithful, Sure, Firm, Decides
<1> QED
  BY <1>2, <1>3, <1>4, <1>5 DEF CatchUpInv, SnapKept

\* Action ListFails keeps the invariant.
LEMMA ListFailsCatchesUp ==
  ASSUME Expected, Inv, CatchUpInv, ListFails
  PROVE  CatchUpInv'
<1>0. /\ UNCHANGED <<place, log>> /\ UNCHANGED <<snap, valid>> /\ UNCHANGED <<page, moved, stored>>
      /\ UNCHANGED <<stopAsked, toInit>> /\ pc = "list" /\ pc' \in {"off", "loop"}
  BY DEF ListFails, driveVars, snapVars, restVars
<1>1. ReaderInv' /\ ~Reading /\ ~Reading' /\ (Trusted' => Trusted)
  BY <1>0 DEF ReaderInv, Reading, WholePair, MovesOut, CatchUpInv, Trusted
<1> QED
  BY <1>0, <1>1, Passage

\* Action SetValid keeps the invariant.
LEMMA SetValidCatchesUp ==
  ASSUME Expected, Inv, CatchUpInv, SetValid
  PROVE  CatchUpInv'
<1>0. /\ UNCHANGED <<place, log>> /\ UNCHANGED snap /\ UNCHANGED <<cursor, page, moved, stored>>
      /\ UNCHANGED <<stopAsked, toInit>> /\ pc = "filled"
      /\ valid' = ~stopAsked /\ pc' = IF stopAsked THEN "loop" ELSE "events"
  BY DEF SetValid, driveVars, workVars, restVars
<1>1. ReaderInv' /\ ~Reading /\ ~Reading' /\ (Trusted' => Trusted)
  BY <1>0 DEF ReaderInv, Reading, WholePair, MovesOut, CatchUpInv, Trusted
<1> QED
  BY <1>0, <1>1, Passage

\* Action ReadCursor keeps the invariant.
LEMMA ReadCursorCatchesUp ==
  ASSUME Expected, Inv, CatchUpInv, ReadCursor
  PROVE  CatchUpInv'
<1>0. /\ UNCHANGED <<place, log>> /\ UNCHANGED <<snap, valid>> /\ UNCHANGED <<page, moved, stored>>
      /\ UNCHANGED <<stopAsked, toInit>> /\ pc = "events" /\ pc' \in {"off", "loop", "poll", "fetch"}
      /\ pc' \in {"poll", "fetch"} => cursor' = stored
      /\ pc' = "loop" => stopAsked \/ ~valid
  BY DEF ReadCursor, ListingCursor, driveVars, snapVars, restVars
<1>1. ReaderInv' /\ ~Reading /\ ~Reading' /\ (Trusted' => Trusted)
  BY <1>0 DEF ReaderInv, Reading, WholePair, MovesOut, CatchUpInv, Trusted
<1> QED
  BY <1>0, <1>1, Passage

\* Action LongPoll keeps the invariant.
LEMMA LongPollCatchesUp ==
  ASSUME Expected, Inv, CatchUpInv, LongPoll
  PROVE  CatchUpInv'
<1>0. /\ UNCHANGED <<place, log>> /\ UNCHANGED <<snap, valid>> /\ UNCHANGED <<cursor, page, moved, stored>>
      /\ UNCHANGED <<stopAsked, toInit>> /\ pc = "poll" /\ pc' \in {"off", "loop", "fetch"}
  BY DEF LongPoll, driveVars, snapVars, workVars, restVars
<1>1. ReaderInv' /\ ~Reading /\ ~Reading' /\ (Trusted' => Trusted)
  BY <1>0 DEF ReaderInv, Reading, WholePair, MovesOut, CatchUpInv, Trusted
<1> QED
  BY <1>0, <1>1, Passage

\* Action FetchFails keeps the invariant: the cursor in the database is the one that
\* counts.
LEMMA FetchFailsCatchesUp ==
  ASSUME Expected, Inv, CatchUpInv, FetchFails
  PROVE  CatchUpInv'
<1>0. /\ UNCHANGED <<place, log>> /\ UNCHANGED <<stopAsked, toInit, stored>>
      /\ pc = "fetch" /\ pc' = "loop" /\ page' = <<>> /\ moved' = {}
      /\ Invalidate \/ UNCHANGED <<snap, valid>>
  BY DEF FetchFails, ProcessEventsReturns, driveVars, snapVars, restVars
<1>1. ReaderInv' /\ ~Reading /\ ~Reading'
  BY <1>0 DEF ReaderInv, Reading, WholePair, MovesOut, CatchUpInv, Invalidate
<1>2. CASE Invalidate
  <2>1. SnapKept(snap') /\ ~Trusted' /\ PageInv'
    BY <1>0, <1>1, <1>2, EmptyKept DEF Invalidate, Trusted, CatchUpInv, PageInv
  <2> QED
    BY <1>0, <1>1, <2>1, Distrusted
<1>3. CASE UNCHANGED <<snap, valid>>
  <2>1. Trusted' => Trusted
    BY <1>0, <1>3 DEF Trusted
  <2> QED
    BY <1>0, <1>1, <1>3, <2>1, Passage
<1> QED
  BY <1>0, <1>2, <1>3

\* Action Start keeps the invariant.
LEMMA StartCatchesUp ==
  ASSUME Expected, Inv, CatchUpInv, Start
  PROVE  CatchUpInv'
<1>0. /\ UNCHANGED <<place, log>> /\ UNCHANGED <<snap, valid>> /\ UNCHANGED <<cursor, page, moved, stored>>
      /\ toInit' = toInit /\ pc = "off" /\ pc' = "loop" /\ stopAsked' = FALSE
  BY DEF Start, driveVars, snapVars, workVars, restVars
<1>1. ReaderInv' /\ ~Reading /\ ~Reading' /\ (Trusted' => Trusted)
  BY <1>0 DEF ReaderInv, Reading, WholePair, MovesOut, CatchUpInv, Trusted
<1> QED
  BY <1>0, <1>1, Passage

\* Action Stop keeps the invariant.
LEMMA StopCatchesUp ==
  ASSUME Expected, Inv, CatchUpInv, Stop
  PROVE  CatchUpInv'
<1>1. /\ UNCHANGED <<place, log>> /\ UNCHANGED <<snap, valid, pc>> /\ UNCHANGED <<cursor, page, moved, stored>>
      /\ toInit' = toInit /\ stopAsked' = TRUE
  BY DEF Stop, driveVars, snapVars, workVars, restVars
<1> QED
  BY <1>1, Bystander

\* Actions StartCycle and ExecutorEnds keep the invariant.
LEMMA CycleCatchesUp ==
  ASSUME Expected, Inv, CatchUpInv, StartCycle \/ ExecutorEnds \/ UNCHANGED vars
  PROVE  CatchUpInv'
<1>1. /\ UNCHANGED <<place, log>> /\ UNCHANGED <<snap, valid, pc>> /\ UNCHANGED <<cursor, page, moved, stored>>
      /\ UNCHANGED <<toInit, stopAsked>>
  BY DEF StartCycle, ExecutorEnds, vars, driveVars, snapVars, workVars, restVars
<1> QED
  BY <1>1, Bystander

\* Action CycleAborts keeps the invariant: it asks to empty a valid snapshot only.
LEMMA CycleAbortsCatchesUp ==
  ASSUME Expected, Inv, CatchUpInv, CycleAborts
  PROVE  CatchUpInv'
<1>1. /\ UNCHANGED <<place, log>> /\ UNCHANGED <<snap, valid, pc>> /\ UNCHANGED <<cursor, page, moved, stored>>
      /\ toInit' = valid /\ stopAsked' = stopAsked
  BY DEF CycleAborts, driveVars, snapVars, workVars, restVars
<1> QED
  BY <1>1, Bystander

\* Action InvalidateAsked keeps the invariant: no snapshot is being made then.
LEMMA InvalidateAskedCatchesUp ==
  ASSUME Expected, Inv, CatchUpInv, InvalidateAsked
  PROVE  CatchUpInv'
<1>0. /\ UNCHANGED <<place, log>> /\ UNCHANGED <<pc, stopAsked>> /\ UNCHANGED <<cursor, page, moved, stored>>
      /\ toInit /\ toInit' = FALSE /\ snap' = EmptySnapshot /\ valid' = FALSE
  BY DEF InvalidateAsked, driveVars, workVars
<1>1. SnapKept(snap') /\ ~Trusted'
  BY <1>0, EmptyKept DEF CatchUpInv, ReaderInv, Trusted
<1>2. PageInv' /\ ReaderInv'
  BY <1>0 DEF CatchUpInv, PageInv, ReaderInv, Reading, WholePair, MovesOut
<1> QED
  BY <1>0, <1>1, <1>2, Distrusted

\* Action Crash keeps the invariant.
LEMMA CrashCatchesUp ==
  ASSUME Expected, Inv, CatchUpInv, Crash
  PROVE  CatchUpInv'
<1>0. /\ UNCHANGED <<place, log>> /\ stored' = stored /\ moved' = {}
      /\ snap' = EmptySnapshot /\ valid' = FALSE /\ pc' = "off"
  BY DEF Crash, driveVars
<1>1. SnapKept(snap') /\ ~Trusted' /\ PageInv'
  BY <1>0, EmptyKept DEF Trusted, PageInv, Reading
<1>2. ReaderInv'
  BY <1>0 DEF CatchUpInv, ReaderInv, WholePair, MovesOut
<1> QED
  BY <1>0, <1>1, <1>2, Distrusted
-----------------------------------------------------------------------------
(***************************************************************************)
(* A page and its actions.                                                 *)
(***************************************************************************)
\* Before a move out is its move in.
LEMMA PairBefore ==
  ASSUME MovesInPairs, NEW n \in Int, n + 1 \in DOMAIN log, MovesOut(log[n + 1])
  PROVE  n \in DOMAIN log /\ log[n].code = "moveIn" /\ log[n].item = log[n + 1].item
<1> DEFINE m == n + 1
<1>1. m \in DOMAIN log /\ MovesOut(log[m]) /\ m - 1 = n
  OBVIOUS
<1> HIDE DEF m
<1>2. m - 1 \in DOMAIN log /\ log[m - 1].code = "moveIn" /\ log[m - 1].item = log[m].item
  BY <1>1 DEF MovesInPairs
<1> QED
  BY <1>1, <1>2 DEF m

\* Action FetchPage keeps the invariant: the page follows what was applied, and
\* does not part a move.
LEMMA FetchPageCatchesUp ==
  ASSUME Expected, Inv, CatchUpInv, FetchPage
  PROVE  CatchUpInv'
<1>0. PICK n \in Cuts(cursor) :
        /\ cursor' = n /\ stored' = (IF n = cursor THEN stored ELSE n)
        /\ page' = SubSeq(log, cursor + 1, n) /\ pc' = "act" /\ moved' = {}
        /\ UNCHANGED <<place, log>> /\ UNCHANGED <<snap, valid>> /\ UNCHANGED <<stopAsked, toInit>>
        /\ pc = "fetch" /\ ~stopAsked /\ cursor # NoCursor
  BY DEF FetchPage, Expected, driveVars, snapVars, restVars
<1>1. /\ log \in Seq(Actions) /\ Len(log) \in Nat /\ DOMAIN log = 1 .. Len(log)
      /\ cursor \in Nat /\ cursor <= Len(log) /\ cursor = stored /\ WholePair(cursor)
  <2>1. log \in Seq(Actions) /\ cursor \in NoCursor .. Len(log)
    BY DEF Inv, TypeOK
  <2>2. Len(log) \in Nat /\ DOMAIN log = 1 .. Len(log)
    BY <2>1, LenProperties
  <2>3. cursor = stored /\ WholePair(cursor)
    BY <1>0 DEF CatchUpInv, ReaderInv
  <2> QED
    BY <2>1, <2>2, <2>3, <1>0 DEF NoCursor
<1>2. n \in cursor .. Len(log) /\ stored' = n
  BY <1>0, <1>1 DEF Cuts
<1>3. /\ Len(page') = n - cursor /\ DOMAIN page' = 1 .. n - cursor
      /\ \A k \in 1 .. n - cursor : page'[k] = log[cursor + k]
  <2>1. cursor + 1 \in 1 .. Len(log) + 1 /\ n \in cursor + 1 - 1 .. Len(log)
    BY <1>1, <1>2
  <2>2. /\ page' \in Seq(Actions)
        /\ Len(page') = (IF cursor + 1 <= n THEN n - (cursor + 1) + 1 ELSE 0)
        /\ \A k \in 1 .. n - (cursor + 1) + 1 : page'[k] = log[cursor + 1 + k - 1]
    BY <1>0, <1>1, <2>1, SubSeqProperties
  <2>3. Len(page') = n - cursor
    BY <2>2, <1>1, <1>2
  <2>4. DOMAIN page' = 1 .. n - cursor
    BY <2>2, <2>3, LenProperties
  <2>5. ASSUME NEW k \in 1 .. n - cursor PROVE page'[k] = log[cursor + k]
    <3>1. k \in 1 .. n - (cursor + 1) + 1 /\ cursor + 1 + k - 1 = cursor + k
      BY <1>1, <1>2
    <3> QED
      BY <2>2, <3>1
  <2> QED
    BY <2>3, <2>4, <2>5
<1>4. At' = At
  BY <1>0, <1>1, <1>2, <1>3 DEF At, Reading
<1>5. PageInv'
  <2>1. cursor' = stored' /\ Len(page') <= cursor' /\ cursor' - Len(page') = cursor
    BY <1>0, <1>1, <1>2, <1>3
  <2>2. \A k \in DOMAIN page' : page'[k] = log'[cursor' - Len(page') + k]
    BY <1>0, <1>3, <2>1
  <2>3. page' # <<>> => ~MovesOut(Head(page'))
    <3> SUFFICES ASSUME page' # <<>> PROVE ~MovesOut(Head(page'))
      OBVIOUS
    <3>1. Len(page') # 0 /\ Head(page') = page'[1]
      BY <1>0, <1>1
    <3>2. 1 \in 1 .. n - cursor /\ cursor + 1 \in DOMAIN log
      BY <3>1, <1>1, <1>2, <1>3
    <3> QED
      BY <3>1, <3>2, <1>1, <1>3 DEF WholePair
  <2> QED
    BY <2>1, <2>2, <2>3 DEF PageInv, MovesOut
<1>6. WholePair(n)
  <2> SUFFICES ASSUME n + 1 \in DOMAIN log, MovesOut(log[n + 1]) PROVE FALSE
    BY DEF WholePair
  <2>1. n \in DOMAIN log /\ log[n].code = "moveIn" /\ log[n].item = log[n + 1].item
    <3>1. n \in Int /\ MovesInPairs
      BY <1>1, <1>2 DEF CatchUpInv, LogInv
    <3> QED
      BY <3>1, PairBefore
  <2>2. n \in 1 .. Len(log) - 1
    BY <2>1, <1>1, <1>2
  <2> QED
    BY <2>1, <2>2 DEF Cuts, Expected, MovesOut
<1>7. ReaderInv'
  BY <1>0, <1>2, <1>6 DEF ReaderInv, WholePair, MovesOut
<1>8. LogInv' /\ SnapKept(snap)'
  BY <1>0, LogUntouched DEF CatchUpInv, SnapKept
<1>9. CaughtUp'
  <2>1. Trusted' => Trusted
    BY <1>0 DEF Trusted
  <2> QED
    BY <2>1, <1>0, <1>4 DEF CatchUpInv, CaughtUp, Faithful, Sure, Firm, Decides
<1> QED
  BY <1>5, <1>7, <1>8, <1>9 DEF CatchUpInv

\* The action that is taken is the next one of the log.
LEMMA TakenIsNext ==
  ASSUME Inv, CatchUpInv, pc = "act", page # <<>>
  PROVE  /\ At \in Nat /\ At + 1 \in DOMAIN log /\ log[At + 1] = Taken /\ Taken \in Actions
         /\ Len(page) \in Nat \ {0} /\ DOMAIN page = 1 .. Len(page) /\ Taken = page[1]
         /\ cursor \in Nat /\ cursor <= Len(log) /\ At = cursor - Len(page)
         /\ DOMAIN log = 1 .. Len(log) /\ Len(log) \in Nat
<1>1. /\ log \in Seq(Actions) /\ page \in Seq(Actions) /\ cursor \in NoCursor .. Len(log)
      /\ Len(page) <= cursor /\ \A k \in DOMAIN page : page[k] = log[cursor - Len(page) + k]
  BY DEF Inv, TypeOK, CatchUpInv, PageInv, Reading
<1>2. /\ Len(log) \in Nat /\ DOMAIN log = 1 .. Len(log)
      /\ Len(page) \in Nat /\ DOMAIN page = 1 .. Len(page)
  BY <1>1, LenProperties
<1>3. Len(page) # 0 /\ Taken = page[1] /\ Taken \in Actions
  BY <1>1 DEF Taken
<1>4. cursor \in Nat /\ cursor <= Len(log)
  BY <1>1, <1>2 DEF NoCursor
<1>5. At = cursor - Len(page) /\ At \in Nat /\ At + 1 \in 1 .. Len(log)
  BY <1>1, <1>2, <1>3, <1>4 DEF At, Reading
<1>6. log[At + 1] = page[1]
  BY <1>1, <1>2, <1>3, <1>5
<1> QED
  BY <1>2, <1>3, <1>4, <1>5, <1>6

\* Which items become firm when an action is behind.
LEMMA FirmAfter ==
  ASSUME NEW n \in Nat, n + 1 \in DOMAIN log, DOMAIN log \subseteq Int
  PROVE  /\ Firm(log, n + 1) \subseteq Firm(log, n) \cup {log[n + 1].item}
         /\ Decides(log[n + 1]) => log[n + 1].item \notin Firm(log, n)
         /\ ~Decides(log[n + 1]) => Firm(log, n + 1) = Firm(log, n)
<1>1. \A m \in DOMAIN log : (m > n <=> m > n + 1 \/ m = n + 1)
  OBVIOUS
<1> QED
  BY <1>1 DEF Firm

\* When an action is done the next is one further.
LEMMA ActionDoneCatchesUp ==
  ASSUME Expected, Inv, CatchUpInv, Acts, NEW s, ActionDone(s), SnapKept(s),
         Trusted => Faithful(s, Firm(log, At + 1), place)
  PROVE  CatchUpInv'
<1>0. /\ pc = "act" /\ pc' = "act" /\ page # <<>> /\ page' = Tail(page) /\ snap' = s
      /\ moved' = IF Taken.code = "moveIn" THEN moved \cup {Taken.item} ELSE moved
      /\ UNCHANGED <<place, log>> /\ UNCHANGED <<valid, stopAsked, toInit>> /\ UNCHANGED <<cursor, stored>>
  BY DEF Acts, ActionDone, driveVars, restVars
<1>1. /\ At \in Nat /\ At + 1 \in DOMAIN log /\ log[At + 1] = Taken
      /\ Len(page) \in Nat \ {0} /\ DOMAIN page = 1 .. Len(page)
      /\ cursor \in Nat /\ cursor <= Len(log) /\ At = cursor - Len(page)
      /\ DOMAIN log = 1 .. Len(log) /\ Len(log) \in Nat
  BY <1>0, TakenIsNext
<1>2. /\ page \in Seq(Actions) /\ cursor = stored /\ Len(page) <= cursor
      /\ \A k \in DOMAIN page : page[k] = log[cursor - Len(page) + k]
  BY <1>0 DEF Inv, TypeOK, CatchUpInv, PageInv, Reading
<1>3. /\ Len(page') = Len(page) - 1 /\ page' \in Seq(Actions)
      /\ \A k \in 1 .. Len(page) - 1 : page'[k] = page[k + 1]
  BY <1>0, <1>2, HeadTailProperties
<1>4. DOMAIN page' = 1 .. Len(page) - 1
  BY <1>3, LenProperties
<1>5. At' = At + 1 /\ cursor - Len(page') = At + 1
  BY <1>0, <1>1, <1>3 DEF At, Reading
<1>6. \A k \in DOMAIN page' : page'[k] = log[At + 1 + k]
  <2> SUFFICES ASSUME NEW k \in 1 .. Len(page) - 1 PROVE page'[k] = log[At + 1 + k]
    BY <1>4
  <2>1. k + 1 \in DOMAIN page /\ cursor - Len(page) + (k + 1) = At + 1 + k
    BY <1>1
  <2> QED
    BY <2>1, <1>2, <1>3
<1>7. PageInv'
  <2>1. ASSUME page' # <<>>, MovesOut(Head(page')) PROVE Head(page').item \in moved'
    <3>1. Head(page') = page'[1] /\ Len(page') # 0
      BY <1>3, <2>1
    <3>2. 1 \in DOMAIN page' /\ At + 1 \in Int /\ At + 1 + 1 \in DOMAIN log
      BY <3>1, <1>1, <1>3, <1>4
    <3>3. Head(page') = log[At + 1 + 1]
      BY <3>1, <3>2, <1>6
    <3>4. log[At + 1].code = "moveIn" /\ log[At + 1].item = Head(page').item
      <4> DEFINE n == At + 1
      <4>1. n \in Int /\ n + 1 \in DOMAIN log /\ Head(page') = log[n + 1] /\ MovesInPairs
        BY <3>2, <3>3 DEF CatchUpInv, LogInv
      <4> HIDE DEF n
      <4>2. log[n].code = "moveIn" /\ log[n].item = Head(page').item
        BY <2>1, <4>1, PairBefore
      <4> QED
        BY <4>2 DEF n
    <3> QED
      BY <3>4, <1>0, <1>1
  <2>2. Len(page') <= cursor
    BY <1>1, <1>2, <1>3
  <2> QED
    BY <2>1, <2>2, <1>0, <1>2, <1>5, <1>6 DEF PageInv, MovesOut
<1>8. ReaderInv'
  <2>1. Taken.code = "moveIn" => Taken.item \in Movers
    BY <1>1 DEF CatchUpInv, LogInv, MovesInPairs
  <2> QED
    BY <2>1, <1>0 DEF CatchUpInv, ReaderInv, WholePair, MovesOut
<1>9. LogInv' /\ SnapKept(snap')
  BY <1>0, LogUntouched DEF CatchUpInv
<1>10. CaughtUp'
  <2>1. Trusted' <=> Trusted
    BY <1>0 DEF Trusted
  <2> QED
    BY <2>1, <1>0, <1>5 DEF CaughtUp, Faithful, Sure, Firm, Decides
<1> QED
  BY <1>7, <1>8, <1>9, <1>10 DEF CatchUpInv, SnapKept
\* If the item does not become sure, nothing else does.
LEMMA OnlySure ==
  ASSUME NEW firm, NEW pl, NEW firm2, NEW d, firm2 \subseteq firm \cup {d},
         d \notin Sure(firm2, pl)
  PROVE  Sure(firm2, pl) \subseteq Sure(firm, pl)
<1> DEFINE T == (Items \ Sure(firm, pl)) \cup (Items \ Sure(firm2, pl))
<1>1. ASSUME NEW k \in T PROVE k \notin firm2 \/ pl[k] \in T \cup {Away}
  <2>1. CASE k \in Items \ Sure(firm2, pl)
    BY <2>1, UnsureIsClosed
  <2>2. CASE k \in Items \ Sure(firm, pl) /\ k \in Sure(firm2, pl)
    <3>1. k \notin firm \/ pl[k] \in (Items \ Sure(firm, pl)) \cup {Away}
      BY <2>2, UnsureIsClosed
    <3> QED
      BY <2>2, <3>1
  <2> QED
    BY <2>1, <2>2
<1>2. T \cap Sure(firm2, pl) = {}
  BY <1>1, ClosedIsUnsure
<1> QED
  BY <1>2 DEF Sure

\* What the invariant says of the action that is taken.
LEMMA TakenTells ==
  ASSUME Inv, CatchUpInv, pc = "act", page # <<>>
  PROVE  LET d == Taken.item
             firm == Firm(log, At)
             firm2 == Firm(log, At + 1)
         IN  /\ d \in Items /\ Taken.parent \in Folders /\ Taken.code \in Codes
             /\ firm \in SUBSET Items /\ firm2 \in SUBSET Items /\ firm2 \subseteq firm \cup {d}
             /\ Decides(Taken) => d \notin firm
             /\ ~Decides(Taken) => firm2 = firm
             /\ Taken.code \in InCodes \cup {"edit"} => Taken.parent \in Places[d]
             /\ d \in firm2 /\ Taken.code \in InCodes \cup {"edit"} => place[d] = Taken.parent
             /\ d \in firm2 /\ Decides(Taken) /\ Taken.code \in OutCodes => place[d] = Away
             /\ Taken.code = "create" => \A k \in Items : place[k] = d => k \notin firm2
             /\ Taken.code = "revoke" => d \notin Movers
             /\ Taken.code = "grant" => "grant" \in May[d]
             /\ MovesOut(Taken) => d \in moved
<1> DEFINE n == At + 1
<1>1. At \in Nat /\ n \in DOMAIN log /\ log[n] = Taken /\ Taken \in Actions /\ DOMAIN log \subseteq Int
  <2>1. At \in Nat /\ At + 1 \in DOMAIN log /\ log[At + 1] = Taken /\ Taken \in Actions
    BY TakenIsNext
  <2>2. DOMAIN log = 1 .. Len(log)
    BY TakenIsNext
  <2> QED
    BY <2>1, <2>2
<1>2. LogInv /\ (page # <<>> /\ MovesOut(Head(page)) => Head(page).item \in moved)
  BY DEF CatchUpInv, PageInv, Reading
<1>3. /\ Firm(log, n) \subseteq Firm(log, At) \cup {Taken.item}
      /\ Decides(Taken) => Taken.item \notin Firm(log, At)
      /\ ~Decides(Taken) => Firm(log, n) = Firm(log, At)
  BY <1>1, FirmAfter
<1>4. Firm(log, At) \in SUBSET Items /\ Firm(log, n) \in SUBSET Items
  BY DEF Firm
<1> HIDE DEF n
<1>5. Taken.code \in InCodes \cup {"edit"} => Taken.parent \in Places[Taken.item]
  BY <1>1, <1>2 DEF LogInv, PlacesKept
<1>6. Taken.item \in Firm(log, n) =>
        /\ Taken.code \in InCodes \cup {"edit"} => place[Taken.item] = Taken.parent
        /\ Decides(Taken) /\ Taken.code \in OutCodes => place[Taken.item] = Away
  BY <1>1, <1>2 DEF LogInv, LogTellsPlaces
<1>7. Taken.code = "create" => \A k \in Items : place[k] = Taken.item => k \notin Firm(log, n)
  BY <1>1, <1>2 DEF LogInv, CreatedEmpty
<1>8. /\ Taken.code = "revoke" => Taken.item \notin Movers
      /\ Taken.code = "grant" => "grant" \in May[Taken.item]
  BY <1>1, <1>2 DEF LogInv, MovesInPairs
<1>9. MovesOut(Taken) => Taken.item \in moved
  BY <1>2 DEF Taken
<1>10. Taken.item \in Items /\ Taken.parent \in Folders /\ Taken.code \in Codes
  BY <1>1 DEF Actions
<1> QED
  BY <1>3, <1>4, <1>5, <1>6, <1>7, <1>8, <1>9, <1>10 DEF n

\* Action IgnoreAction keeps the invariant: what an ignored action said of its item is
\* no longer so, or does not matter.
LEMMA IgnoreActionCatchesUp ==
  ASSUME Expected, Inv, CatchUpInv, IgnoreAction
  PROVE  CatchUpInv'
<1> DEFINE d == Taken.item
           firm == Firm(log, At)
           firm2 == Firm(log, At + 1)
<1>0. pc = "act" /\ page # <<>> /\ Acts /\ ActionDone(snap) /\ SnapKept(snap) /\ moved \subseteq Movers
  BY DEF IgnoreAction, Acts, CatchUpInv, ReaderInv
<1>1. /\ d \in Items /\ firm \in SUBSET Items /\ firm2 \in SUBSET Items /\ firm2 \subseteq firm \cup {d}
      /\ ~Decides(Taken) => firm2 = firm
      /\ Taken.code \in InCodes \cup {"edit"} => Taken.parent \in Places[d]
      /\ d \in firm2 /\ Taken.code \in InCodes \cup {"edit"} => place[d] = Taken.parent
      /\ d \in firm2 /\ Decides(Taken) /\ Taken.code \in OutCodes => place[d] = Away
      /\ Taken.code = "grant" => "grant" \in May[d]
  BY <1>0, TakenTells
<1>2. place \in [Items -> Folders \cup {Away}]
  BY DEF Inv, TypeOK
<1> HIDE DEF d, firm, firm2
<1>3. ASSUME Trusted PROVE Faithful(snap, firm2, place)
  <2>0. Faithful(snap, firm, place)
    BY <1>3 DEF CatchUpInv, CaughtUp, firm
  <2>1. CASE ~Decides(Taken)
    BY <2>0, <2>1, <1>1
  <2>2. CASE Taken.code = "grant" /\ ~OnDrive(d)
    <3>1. d \notin Sure(firm2, place)
      BY <2>2, SureIsOnDrive DEF OnDrive
    <3>2. Sure(firm2, place) \subseteq Sure(firm, place)
      BY <3>1, <1>1, OnlySure
    <3>3. ASSUME NEW i \in firm2, snap.parent[i] \in Folders PROVE snap.parent[i] = place[i]
      <4>1. CASE i = d
        <5>1. snap.parent[d] \in Places[d]
          BY <4>1, <3>3, <1>0, <1>1 DEF SnapKept, Absent, Unknown
        <5>2. place[d] \in Places[d] /\ "grant" \in May[d]
          BY <4>1, <3>3, <2>2, <1>1 DEF InCodes
        <5> QED
          BY <4>1, <5>1, <5>2, <1>1 DEF Expected
      <4>2. CASE i # d
        BY <4>2, <3>3, <2>0, <1>1 DEF Faithful
      <4> QED
        BY <4>1, <4>2
    <3> QED
      BY <3>2, <3>3, <2>0 DEF Faithful
  <2>3. CASE Decides(Taken) /\ Taken.code = "revoke" /\ OnDrive(d)
    <3>1. place[d] # Away
      <4>1. d \in Inside(Root) /\ Root \in Folders
        BY <2>3, <1>1 DEF OnDrive, Folders
      <4>2. place[d] \in Folders
        BY <4>1, <1>2, InsideHasParents
      <4> QED
        BY <4>2
    <3>2. d \notin firm2
      BY <3>1, <2>3, <1>1 DEF OutCodes
    <3> QED
      BY <3>2, <2>0, <1>1, FaithfulToLess
  <2>4. CASE Taken.code \in {"moveOut", "revoke"} /\ d \in moved
    <3>1. ~Decides(Taken)
      BY <2>4, <1>0 DEF Decides, d, InCodes
    <3> QED
      BY <3>1, <2>1
  <2> QED
    BY <2>1, <2>2, <2>3, <2>4 DEF IgnoreAction, Ignored, d
<1> QED
  BY <1>0, <1>3, ActionDoneCatchesUp DEF firm2

\* Action UpdateFromAction keeps the invariant: a new directory is empty, and nothing
\* is in a file.
LEMMA UpdateFromActionCatchesUp ==
  ASSUME Expected, Inv, CatchUpInv, UpdateFromAction
  PROVE  CatchUpInv'
<1> DEFINE d == Taken.item
           p == Taken.parent
           firm == Firm(log, At)
           firm2 == Firm(log, At + 1)
<1>0. /\ pc = "act" /\ page # <<>> /\ Acts /\ SnapKept(snap)
      /\ ActionDone(UpdateItem(snap, d, p)) /\ Taken.code \in InCodes \cup {"edit"}
      /\ Taken.code \in {"create", "edit"} \/ d \notin Dirs
  BY DEF UpdateFromAction, Acts, Explores, CatchUpInv
<1>1. /\ d \in Items /\ p \in Folders /\ p \in Places[d]
      /\ firm \in SUBSET Items /\ firm2 \in SUBSET Items /\ firm2 \subseteq firm \cup {d}
      /\ ~Decides(Taken) => firm2 = firm
      /\ d \in firm2 => place[d] = p
      /\ Taken.code = "create" => \A k \in Items : place[k] = d => k \notin firm2
  BY <1>0, TakenTells
<1>2. place \in [Items -> Folders \cup {Away}] /\ IsTree(snap) /\ snap \in Snapshots
  BY DEF Inv, TypeOK, IsTree
<1> HIDE DEF d, p, firm, firm2
<1>3. Sure(firm2, place) \subseteq Sure(firm, place) \cup {d}
  <2>1. CASE Taken.code = "edit"
    <3>1. ~Decides(Taken)
      BY <2>1 DEF Decides, InCodes
    <3> QED
      BY <3>1, <1>1
  <2>2. CASE Taken.code # "edit"
    <3>1. \A k \in Items : place[k] = d => k \notin firm2
      <4>1. CASE Taken.code = "create"
        BY <4>1, <1>1
      <4>2. CASE d \notin Dirs
        BY <4>2, <1>1 DEF CatchUpInv, LogInv, PlacesKept, Folders
      <4> QED
        BY <4>1, <4>2, <2>2, <1>0
    <3>2. Inside(d) \cap Sure(firm2, place) = {}
      BY <3>1, <1>1, <1>2, NothingSureInside
    <3>3. Sure(firm2, place) \subseteq Sure(firm, place) \cup {d} \cup Inside(d)
      BY <1>1, <1>2, NewlySure
    <3> QED
      BY <3>2, <3>3
  <2> QED
    BY <2>1, <2>2
<1>4. \A i \in Sure(firm2, place) : place[i] \in Folders
  BY <1>2, SureHasParent DEF Sure, Folders
<1>5. Trusted => Faithful(UpdateItem(snap, d, p), firm2, place)
  <2> SUFFICES ASSUME Trusted PROVE Faithful(UpdateItem(snap, d, p), firm2, place)
    OBVIOUS
  <2>1. Faithful(snap, firm, place)
    BY DEF CatchUpInv, CaughtUp, firm
  <2> QED
    BY <2>1, <1>1, <1>2, <1>3, <1>4, UpdateIsFaithful
<1>6. SnapKept(UpdateItem(snap, d, p))
  BY <1>0, <1>1, <1>2, OperationsKeepPlaces
<1> QED
  BY <1>0, <1>5, <1>6, ActionDoneCatchesUp DEF firm2

\* Action RemoveFromAction keeps the invariant: the move out of an item that only moves
\* is never taken for its removal.
LEMMA RemoveFromActionCatchesUp ==
  ASSUME Expected, Inv, CatchUpInv, RemoveFromAction
  PROVE  CatchUpInv'
<1> DEFINE d == Taken.item
           firm == Firm(log, At)
           firm2 == Firm(log, At + 1)
<1>0. /\ pc = "act" /\ page # <<>> /\ Acts /\ SnapKept(snap)
      /\ ActionDone(RemoveItem(snap, d)) /\ Taken.code \in OutCodes
      /\ ~(Taken.code \in {"moveOut", "revoke"} /\ d \in moved)
  BY DEF RemoveFromAction, Acts, Ignored, CatchUpInv
<1>1. /\ d \in Items
      /\ firm \in SUBSET Items /\ firm2 \in SUBSET Items /\ firm2 \subseteq firm \cup {d}
      /\ Decides(Taken) => d \notin firm
      /\ d \in firm2 /\ Decides(Taken) /\ Taken.code \in OutCodes => place[d] = Away
      /\ Taken.code = "revoke" => d \notin Movers
      /\ MovesOut(Taken) => d \in moved
  BY <1>0, TakenTells
<1>2. place \in [Items -> Folders \cup {Away}] /\ IsTree(snap) /\ snap \in Snapshots
  BY DEF Inv, TypeOK, IsTree
<1>3. Decides(Taken)
  BY <1>0, <1>1 DEF Decides, MovesOut, OutCodes
<1> HIDE DEF d, firm, firm2
<1>4. Trusted => Faithful(RemoveItem(snap, d), firm2, place)
  <2> SUFFICES ASSUME Trusted PROVE Faithful(RemoveItem(snap, d), firm2, place)
    OBVIOUS
  <2>1. Faithful(snap, firm, place)
    BY DEF CatchUpInv, CaughtUp, firm
  <2> QED
    BY <2>1, <1>0, <1>1, <1>2, <1>3, RemoveItemIsFaithful
<1>5. SnapKept(RemoveItem(snap, d))
  BY <1>0, <1>1, <1>2, OperationsKeepPlaces
<1> QED
  BY <1>0, <1>4, <1>5, ActionDoneCatchesUp DEF firm2

\* Action ExploreDirectory keeps the invariant: the listing is newer than the action,
\* and what follows does not undo it.
LEMMA ExploreDirectoryCatchesUp ==
  ASSUME Expected, Inv, CatchUpInv, ExploreDirectory
  PROVE  CatchUpInv'
<1> DEFINE d == Taken.item
           p == Taken.parent
           firm == Firm(log, At)
           firm2 == Firm(log, At + 1)
           s == ExploreResult
<1>0. /\ pc = "act" /\ page # <<>> /\ Acts /\ SnapKept(snap)
      /\ Taken.code \in InCodes
      /\ s = ListInto(UpdateItem(snap, d, p), Inside(d))
  BY DEF ExploreDirectory, ExploreResult, Acts, Explores, CatchUpInv
<1>1. /\ d \in Items /\ p \in Folders /\ p \in Places[d]
      /\ firm \in SUBSET Items /\ firm2 \in SUBSET Items /\ firm2 \subseteq firm \cup {d}
      /\ Decides(Taken) => d \notin firm
      /\ d \in firm2 => place[d] = p
  BY <1>0, TakenTells
<1>2. place \in [Items -> Folders \cup {Away}] /\ IsTree(snap) /\ snap \in Snapshots
  BY DEF Inv, TypeOK, IsTree
<1>3. Decides(Taken)
  BY <1>0 DEF Decides
<1>4. IsTree(UpdateItem(snap, d, p)) /\ IsTree(s)
  <2>1. IsTree(UpdateItem(snap, d, p)) /\ d \in Known(UpdateItem(snap, d, p)) /\ d \in Folders
    BY <1>1, <1>2, UpdateKeepsTree DEF Folders
  <2> QED
    BY <2>1, <1>0, <1>2, ListKeepsTree
<1> HIDE DEF d, p, firm, firm2, s
<1>5. SnapKept(s) /\ SnapKept(RemoveOrphans(s))
  <2>1. SnapKept(UpdateItem(snap, d, p))
    BY <1>0, <1>1, <1>2, OperationsKeepPlaces
  <2>2. SnapKept(s)
    <3>1. UpdateItem(snap, d, p) \in Snapshots /\ d \in Folders /\ PlacesKept
      BY <1>1, <1>4 DEF IsTree, Folders, CatchUpInv, LogInv
    <3> QED
      BY <2>1, <3>1, <1>0, <1>2, OperationsKeepPlaces
  <2>3. s \in Snapshots
    BY <1>4 DEF IsTree
  <2> QED
    BY <2>2, <2>3, OperationsKeepPlaces
<1>6. ASSUME Trusted PROVE Faithful(s, firm, place) /\ Faithful(RemoveOrphans(s), firm2, place)
  <2>1. Faithful(snap, firm, place)
    BY <1>6 DEF CatchUpInv, CaughtUp, firm
  <2>2. Faithful(s, firm, place)
    <3>1. firm \subseteq firm \cup {d} /\ (d \in firm => place[d] = p)
      BY <1>1, <1>3
    <3> QED
      BY <2>1, <3>1, <1>0, <1>1, <1>2, ExplorationIsFaithful
  <2>3. Faithful(s, firm2, place)
    BY <2>1, <1>0, <1>1, <1>2, ExplorationIsFaithful
  <2> QED
    BY <2>2, <2>3, <1>1, <1>2, RemoveOrphansIsFaithful
<1>7. CASE ActionDone(RemoveOrphans(s))
  BY <1>0, <1>5, <1>6, <1>7, ActionDoneCatchesUp DEF firm2
<1>8. CASE /\ snap' = s /\ pc' = "stuck" /\ UNCHANGED <<place, log>> /\ UNCHANGED <<valid, stopAsked, toInit>>
           /\ UNCHANGED <<cursor, page, moved, stored>>
  <2>1. LogInv' /\ SnapKept(snap')
    BY <1>5, <1>8, LogUntouched DEF CatchUpInv
  <2>2. PageInv' /\ ReaderInv'
    BY <1>0, <1>8 DEF CatchUpInv, PageInv, ReaderInv, Reading, WholePair, MovesOut
  <2>3. At' = At /\ (Trusted' => Trusted)
    BY <1>0, <1>8 DEF At, Reading, Trusted
  <2>4. CaughtUp'
    BY <2>3, <1>6, <1>8 DEF CaughtUp, Faithful, Sure, Firm, Decides, firm
  <2> QED
    BY <2>1, <2>2, <2>4 DEF CatchUpInv, SnapKept
<1> QED
  BY <1>7, <1>8 DEF ExploreDirectory, driveVars, workVars, restVars, s

\* Action ActionFails keeps the invariant.
LEMMA ActionFailsCatchesUp ==
  ASSUME Expected, Inv, CatchUpInv, ActionFails
  PROVE  CatchUpInv'
<1>0. /\ UNCHANGED <<place, log>> /\ UNCHANGED <<stopAsked, toInit, stored>>
      /\ pc = "act" /\ pc' = "loop" /\ page' = <<>> /\ moved' = {} /\ Invalidate
  BY DEF ActionFails, Acts, ProcessEventsReturns, driveVars, restVars
<1>1. SnapKept(snap') /\ ~Trusted'
  BY <1>0, EmptyKept DEF Invalidate, Trusted, CatchUpInv
<1>2. PageInv' /\ ReaderInv'
  BY <1>0 DEF CatchUpInv, PageInv, ReaderInv, Reading, WholePair, MovesOut
<1> QED
  BY <1>0, <1>1, <1>2, Distrusted

\* The cursor in the database is what has been applied when a page is empty.
LEMMA PageIsApplied ==
  ASSUME Inv, CatchUpInv, Reading, page = <<>>
  PROVE  At = stored /\ cursor = stored
<1>1. cursor = stored /\ cursor \in Int /\ Len(page) = 0
  BY DEF Inv, TypeOK, CatchUpInv, PageInv, NoCursor
<1> QED
  BY <1>1 DEF At

\* Action PageEnds keeps the invariant.
LEMMA PageEndsCatchesUp ==
  ASSUME Expected, Inv, CatchUpInv, PageEnds
  PROVE  CatchUpInv'
<1>0. /\ UNCHANGED <<place, log>> /\ UNCHANGED <<snap, valid>> /\ UNCHANGED <<cursor, page, moved, stored>>
      /\ UNCHANGED <<stopAsked, toInit>> /\ pc = "act" /\ page = <<>> /\ pc' = "fetch"
  BY DEF PageEnds, driveVars, snapVars, workVars, restVars
<1>1. At = stored /\ cursor = stored
  BY <1>0, PageIsApplied DEF Reading
<1>2. At' = At /\ (Trusted' => Trusted)
  BY <1>0, <1>1 DEF At, Reading, Trusted
<1>3. PageInv' /\ ReaderInv'
  BY <1>0, <1>1 DEF CatchUpInv, PageInv, ReaderInv, Reading, WholePair, MovesOut
<1>4. LogInv' /\ SnapKept(snap)'
  BY <1>0, LogUntouched DEF CatchUpInv, SnapKept
<1>5. CaughtUp'
  BY <1>0, <1>2 DEF CatchUpInv, CaughtUp, Faithful, Sure, Firm, Decides
<1> QED
  BY <1>3, <1>4, <1>5 DEF CatchUpInv

\* Action EventsEnd keeps the invariant: a stop leaves a snapshot that is not trusted.
LEMMA EventsEndCatchesUp ==
  ASSUME Expected, Inv, CatchUpInv, EventsEnd
  PROVE  CatchUpInv'
<1>0. /\ UNCHANGED <<place, log>> /\ UNCHANGED <<snap, valid>> /\ UNCHANGED stored
      /\ UNCHANGED <<stopAsked, toInit>> /\ pc = "act" /\ pc' = "loop" /\ page' = <<>> /\ moved' = {}
      /\ stopAsked \/ page = <<>>
  BY DEF EventsEnd, ProcessEventsReturns, driveVars, snapVars, restVars
<1>1. PageInv' /\ ReaderInv'
  BY <1>0 DEF CatchUpInv, PageInv, ReaderInv, Reading, WholePair, MovesOut
<1>2. CASE stopAsked
  <2>1. SnapKept(snap') /\ ~Trusted'
    BY <1>0, <1>2 DEF CatchUpInv, Trusted
  <2> QED
    BY <1>0, <1>1, <2>1, Distrusted
<1>3. CASE page = <<>>
  <2>1. At = stored
    BY <1>0, <1>3, PageIsApplied DEF Reading
  <2>2. At' = At /\ (Trusted' => Trusted)
    BY <1>0, <2>1 DEF At, Reading, Trusted
  <2>3. LogInv' /\ SnapKept(snap)'
    BY <1>0, LogUntouched DEF CatchUpInv, SnapKept
  <2>4. CaughtUp'
    BY <1>0, <2>2 DEF CatchUpInv, CaughtUp, Faithful, Sure, Firm, Decides
  <2> QED
    BY <1>1, <2>3, <2>4 DEF CatchUpInv
<1> QED
  BY <1>0, <1>2, <1>3
-----------------------------------------------------------------------------
(***************************************************************************)
(* The theorem.                                                            *)
(***************************************************************************)
\* The invariant holds at the start: nothing is trusted yet.
LEMMA CatchUpInit ==
  ASSUME Expected, Init
  PROVE  CatchUpInv
<1>0. place = Home /\ log = <<>> /\ snap = EmptySnapshot /\ ~valid /\ pc = "off" /\ moved = {} /\ ~toInit
  BY DEF Init
<1>1. DOMAIN log = {}
  BY <1>0
<1>2. LogInv
  BY <1>0, <1>1 DEF LogInv, PlacesKept, LogTellsPlaces, CreatedEmpty, MovesInPairs, Expected
<1>3. SnapKept(snap)
  BY <1>0, EmptyKept
<1>4. PageInv /\ ReaderInv
  BY <1>0, <1>1 DEF PageInv, ReaderInv, Reading, WholePair
<1>5. CaughtUp
  BY <1>0 DEF CaughtUp, Trusted
<1> QED
  BY <1>2, <1>3, <1>4, <1>5 DEF CatchUpInv

\* Every step keeps the invariant.
LEMMA CatchUpNext ==
  ASSUME Expected, Inv, CatchUpInv, [Next]_vars
  PROVE  CatchUpInv'
<1>1. CASE Drive
  BY <1>1, DriveInCatchesUp, DriveOutCatchesUp, DriveMoveCatchesUp, DriveEditCatchesUp DEF Drive
<1>2. CASE Observer
  BY <1>2, LoopTopCatchesUp, ListAnsweredCatchesUp, ListFailsCatchesUp, SetValidCatchesUp,
     ReadCursorCatchesUp, LongPollCatchesUp, FetchPageCatchesUp, FetchFailsCatchesUp,
     IgnoreActionCatchesUp, UpdateFromActionCatchesUp, RemoveFromActionCatchesUp,
     ExploreDirectoryCatchesUp, ActionFailsCatchesUp, PageEndsCatchesUp, EventsEndCatchesUp
  DEF Observer
<1>3. CASE Rest
  BY <1>3, StartCatchesUp, StopCatchesUp, CrashCatchesUp, CycleCatchesUp,
     CycleAbortsCatchesUp, InvalidateAskedCatchesUp, UploadCatchesUp DEF Rest
<1>4. CASE UNCHANGED vars
  BY <1>4, CycleCatchesUp
<1> QED
  BY <1>1, <1>2, <1>3, <1>4 DEF Next

\* At the end of the log every item is firm.
LEMMA AllIsFirm ==
  ASSUME Inv
  PROVE  Firm(log, Len(log)) = Items
<1>1. DOMAIN log = 1 .. Len(log) /\ Len(log) \in Nat
  BY LenProperties DEF Inv, TypeOK
<1>2. \A m \in DOMAIN log : ~(m > Len(log))
  BY <1>1
<1> QED
  BY <1>2 DEF Firm

LEMMA CaughtUpShowsTheDrive ==
  ASSUME Inv, CatchUpInv
  PROVE  SnapshotIsTheDrive
<1> SUFFICES ASSUME valid, ~stopAsked, pc \in {"loop", "events", "poll", "fetch", "off"}, stored = Len(log)
             PROVE  SeenTree(snap) = DriveTree
  BY DEF SnapshotIsTheDrive
<1>1. At = Len(log) /\ Trusted
  BY DEF At, Reading, Trusted
<1>2. Faithful(snap, Items, place)
  BY <1>1, AllIsFirm DEF CatchUpInv, CaughtUp
<1>3. place \in [Items -> Folders \cup {Away}] /\ snap \in Snapshots
  BY DEF Inv, TypeOK
<1> QED
  BY <1>2, <1>3, FaithfulIsTheDrive

\* On every drive on which what the code expects holds, whatever fails and whenever the
\* observer is stopped, restarted or invalidated: a valid snapshot whose cursor is at the
\* end of the log is the drive (processEvents and its callers,
\* remotefilesystemobserverworker.cpp:138-259).
THEOREM CaughtUpIsTheDrive ==
  ASSUME Expected
  PROVE  Spec => []SnapshotIsTheDrive
<1>1. Init => CatchUpInv
  BY CatchUpInit
<1>2. Inv /\ CatchUpInv /\ [Next]_vars => CatchUpInv'
  BY CatchUpNext
<1>3. Inv /\ CatchUpInv => SnapshotIsTheDrive
  BY CaughtUpShowsTheDrive
<1> QED
  BY <1>1, <1>2, <1>3, InvHolds, PTL DEF Spec
-----------------------------------------------------------------------------
(* The search for orphans.                                                  *)

\* No folders can be put into each other: of some folders one is never put into the others.
NoSwap == \A T \in SUBSET Items : T # {} => \E k \in T : Places[k] \cap T = {}

\* The thread of the observer is not in an endless search for orphans, with the mutex of
\* the snapshot (isOrphan, snapshot.cpp).
NeverStuck == pc # "stuck"

\* Then the parents of the snapshot make no cycle.
LEMMA KeptIsEnding ==
  ASSUME NoSwap, NEW s, SnapKept(s), NEW i \in Items
  PROVE  ~Endless(s, i)
<1> SUFFICES ASSUME NEW T \in SUBSET Items, i \in T, \A k \in T : s.parent[k] \in T
             PROVE  FALSE
  BY DEF Endless
<1>1. PICK k \in T : Places[k] \cap T = {}
  BY DEF NoSwap
<1>2. s.parent[k] \in Places[k]
  BY DEF SnapKept, Absent, Unknown, Folders
<1> QED
  BY <1>1, <1>2

\* The invariant of the thread, from the one of the snapshot.
LEMMA NotStuckNext ==
  ASSUME Expected, NoSwap, Inv, CatchUpInv, NeverStuck, [Next]_vars
  PROVE  NeverStuck'
<1>1. CASE ExploreDirectory
  <2> DEFINE d == Taken.item
             p == Taken.parent
  <2>1. /\ pc = "act" /\ page # <<>> /\ SnapKept(snap) /\ PlacesKept /\ Taken.code \in InCodes
        /\ ExploreResult = ListInto(UpdateItem(snap, d, p), Inside(d))
    BY <1>1 DEF ExploreDirectory, ExploreResult, Acts, Explores, CatchUpInv, LogInv
  <2>2. d \in Items /\ p \in Folders /\ p \in Places[d]
    BY <2>1, TakenTells
  <2>3. place \in [Items -> Folders \cup {Away}] /\ IsTree(snap) /\ snap \in Snapshots
    BY DEF Inv, TypeOK, IsTree
  <2> HIDE DEF d, p
  <2>4. UpdateItem(snap, d, p) \in Snapshots /\ SnapKept(UpdateItem(snap, d, p)) /\ d \in Folders
    <3>1. IsTree(UpdateItem(snap, d, p)) /\ d \in Folders
      BY <2>2, <2>3, UpdateKeepsTree DEF Folders
    <3>2. SnapKept(UpdateItem(snap, d, p))
      BY <2>1, <2>2, <2>3, OperationsKeepPlaces
    <3> QED
      BY <3>1, <3>2 DEF IsTree
  <2>5. SnapKept(ExploreResult)
    BY <2>1, <2>3, <2>4, OperationsKeepPlaces
  <2>6. ~ \E i \in Known(ExploreResult) : Endless(ExploreResult, i)
    BY <2>5, KeptIsEnding DEF Known
  <2> QED
    BY <1>1, <2>1, <2>6 DEF ExploreDirectory, ActionDone, NeverStuck
<1>2. CASE Drive
  BY <1>2 DEF Drive, DriveIn, DriveOut, DriveMove, DriveEdit, NeverStuck
<1>3. CASE Observer /\ ~ExploreDirectory
  BY <1>3 DEF Observer, LoopTop, ListAnswered, ListFails, SetValid, ReadCursor, LongPoll, FetchPage,
     FetchFails, ProcessEventsReturns, IgnoreAction, UpdateFromAction, RemoveFromAction, ActionDone,
     Acts, ActionFails, PageEnds, EventsEnd, NeverStuck
<1>4. CASE Rest
  BY <1>4 DEF Rest, Start, Stop, Crash, StartCycle, ExecutorEnds, CycleAborts, InvalidateAsked,
     Upload, NeverStuck
<1>5. CASE UNCHANGED vars
  BY <1>5 DEF vars, NeverStuck
<1> QED
  BY <1>1, <1>2, <1>3, <1>4, <1>5 DEF Next

\* If no folders can be put into each other, the search for orphans always ends, although
\* a directory is listed newer than the action that names it, and may have in it what is
\* still above it in the snapshot (removeOrphans and isOrphan, snapshot.cpp).
THEOREM OrphanSearchEnds ==
  ASSUME Expected, NoSwap
  PROVE  Spec => []NeverStuck
<1>1. Init => CatchUpInv /\ NeverStuck
  BY CatchUpInit DEF Init, NeverStuck
<1>2. Inv /\ CatchUpInv /\ [Next]_vars => CatchUpInv'
  BY CatchUpNext
<1>3. Inv /\ CatchUpInv /\ NeverStuck /\ [Next]_vars => NeverStuck'
  BY NotStuckNext
<1> QED
  BY <1>1, <1>2, <1>3, InvHolds, PTL DEF Spec
=============================================================================
