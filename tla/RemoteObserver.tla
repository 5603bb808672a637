--------------------------- MODULE RemoteObserver ---------------------------
(***************************************************************************)
(* The remote file system observer: the thread that keeps the snapshot of  *)
(* the drive, from a full listing and then from the actions the server     *)
(* logs after a cursor (remotefilesystemobserverworker.cpp), the snapshot  *)
(* as a tree (snapshot/snapshot.cpp), and what the synchronization loop    *)
(* does to both: it reads the snapshot at the start of a cycle, forces an  *)
(* update at the end of the executor, and invalidates the snapshot when a  *)
(* cycle aborts.                                                           *)
(*                                                                         *)
(* The drive, its log and its users are external: they do what the code    *)
(* expects of them. A cursor is a position in the log. Of an item only its *)
(* parent is kept: names, dates, sizes and rights are data here.           *)
(***************************************************************************)
EXTENDS Integers, Sequences, FiniteSets

CONSTANTS
    Items,      \* files and directories
    Dirs,       \* the items that are directories
    Root,       \* the synchronized folder
    Home,       \* where each item is when the program starts
    Places,     \* the folders each item may be put in
    May,        \* what the users of the drive may do to each item
    Uploads,    \* the files the executor may upload
    MaxLog,     \* bound on the actions of the drive
    Faults,     \* what may go wrong
    MaxFaults,  \* bound on what goes wrong
    Races       \* what else may happen, that breaks the snapshot

Away == "away"          \* outside the synchronized folder, trashed, or not created
Absent == "absent"      \* not in the snapshot
Unknown == "unknown"    \* in the snapshot as the parent of an item, with no parent itself
NoCursor == -1
Folders == Items \cup {Root}
InCodes == {"create", "moveIn", "restore", "grant"}
OutCodes == {"trash", "moveOut", "revoke"}
Codes == InCodes \cup OutCodes \cup {"edit"}
Stages == {"off", "loop", "list", "filled", "events", "poll", "fetch", "act", "stuck"}

ASSUME ObserverAssumption ==
    /\ Dirs \subseteq Items /\ Root \notin Items /\ Uploads \subseteq Items
    /\ {Away, Absent, Unknown} \cap Folders = {}
    /\ Home \in [Items -> Folders \cup {Away}]
    /\ Places \in [Items -> SUBSET (Dirs \cup {Root})]
    /\ May \in [Items -> SUBSET (Codes \cup {"move"})]
    /\ \A i \in Items : i \notin Places[i]
    /\ MaxLog \in Nat /\ MaxFaults \in Nat
    /\ Faults \subseteq {"request", "db", "stop", "crash", "abort"}
    /\ Races \subseteq {"split", "malformed", "preempted"}

VARIABLES
    \* the drive
    place,      \* the parent of each item, or Away
    log,        \* the actions, in the order the server lists them
    \* the snapshot
    snap,       \* the parent and the children list of each item
    valid,      \* _isValid
    \* the thread of the observer
    pc,
    updating,   \* _updating
    cursor,     \* _cursor
    page,       \* the actions of the current answer that are left
    moved,      \* movedItems
    more,       \* hasMore
    stopAsked,
    \* the rest of the program
    stored,     \* the listing cursor in the database
    cycle,      \* whether a cycle is in progress
    db,         \* the files the executor has uploaded and recorded
    toInit,     \* the loop has seen the snapshot valid and is about to invalidate it
    faults

driveVars == <<place, log>>
snapVars == <<snap, valid>>
workVars == <<cursor, page, moved, more, stored>>
restVars == <<cycle, db, toInit>>
vars == <<driveVars, snapVars, pc, updating, workVars, stopAsked, restVars, faults>>

Fault(kind) == kind \in Faults /\ faults < MaxFaults /\ faults' = faults + 1
-----------------------------------------------------------------------------
(* The snapshot: snapshot.cpp.                                              *)

Snapshots == [parent : [Items -> Folders \cup {Absent, Unknown}],
              children : [Folders -> SUBSET Items]]
EmptySnapshot == [parent |-> [i \in Items |-> Absent], children |-> [d \in Folders |-> {}]]
Known(s) == {i \in Items : s.parent[i] # Absent}

\* Mutant: the item stays in the children list of its parent.
UpdateItemKeepsChild(s, i, p) ==
    [parent |-> [j \in Items |-> IF j = i THEN p
                               ELSE IF j = p /\ s.parent[j] = Absent THEN Unknown
                               ELSE s.parent[j]],
     children |-> [s.children EXCEPT ![p] = @ \cup {i}]]

\* updateItem: the item leaves the children of its parent and joins those of
\* the new one, which is created if it is not known.
UpdateItem(s, i, p) ==
    IF s.parent[i] = p THEN s ELSE
    [parent |-> [j \in Items |-> IF j = i THEN p
                               ELSE IF j = p /\ s.parent[j] = Absent THEN Unknown
                               ELSE s.parent[j]],
     children |-> [d \in Folders |-> IF d = p THEN s.children[d] \cup {i}
                                   ELSE IF d = s.parent[i] THEN s.children[d] \ {i}
                                   ELSE s.children[d]]]

\* What removeChildrenRecursively reaches: the smallest set that holds the
\* children of d and those of its members.
Below(s, d) == {i \in Items : \A T \in SUBSET Items :
                    s.children[d] \subseteq T /\ (\A k \in T : s.children[k] \subseteq T) => i \in T}

RemoveAll(s, gone) ==
    [parent |-> [j \in Items |-> IF j \in gone THEN Absent ELSE s.parent[j]],
     children |-> [d \in Folders |-> IF d \in gone THEN {} ELSE s.children[d] \ gone]]

\* removeItem: nothing if the item is not known.
RemoveItem(s, i) == IF i \in Known(s) THEN RemoveAll(s, {i} \cup Below(s, i)) ELSE s

\* isOrphan climbs the parents: to the root, to an item without one, or for ever.
Orphan(s, i) == \E T \in SUBSET Items :
                    i \in T /\ \A k \in T : s.parent[k] \in T \cup {Absent, Unknown}
Endless(s, i) == \E T \in SUBSET Items : i \in T /\ \A k \in T : s.parent[k] \in T

\* What exists tells the rest of the program: an orphan is kept but not seen.
SeenTree(s) == [i \in Items |-> IF Orphan(s, i) THEN Absent ELSE s.parent[i]]

\* getItemsInDir: each item of the answer is updated, then every orphan is removed.
ListInto(s, list) ==
    [parent |-> [j \in Items |-> IF j \in list THEN place[j] ELSE s.parent[j]],
     children |-> [d \in Folders |-> (s.children[d] \ list) \cup {j \in list : place[j] = d}]]
RemoveOrphans(s) == RemoveAll(s, {i \in Known(s) : Orphan(s, i)})
-----------------------------------------------------------------------------
(* The drive and its users.                                                 *)

\* What is below folder d on the drive, whether d is in the synchronized
\* folder or not.
Inside(d) == {i \in Items \ {d} : \A T \in SUBSET (Items \ {d}) :
                 i \in T => \E k \in T : place[k] \notin T \cup ({Root, Away} \ {d})}
OnDrive(i) == i = Root \/ i \in Inside(Root)
DriveTree == [i \in Items |-> IF OnDrive(i) THEN place[i] ELSE Absent]

Action(c, i, p) == [code |-> c, item |-> i, parent |-> p]
Actions == [code : Codes, item : Items, parent : Folders]
Logs(as) == Len(log) + Len(as) <= MaxLog /\ log' = log \o as
NeverSeen(i) == \A k \in DOMAIN log : log[k].item # i

\* A create is of something new: an item that leaves and comes back does so by
\* another code.
DriveIn(c, i, p) ==
    /\ c \in May[i] \cap InCodes /\ place[i] = Away /\ p \in Places[i] /\ OnDrive(p)
    /\ c = "create" => NeverSeen(i) /\ Inside(i) = {}
    /\ Logs(<<Action(c, i, p)>>)
    /\ place' = [place EXCEPT ![i] = p]
    /\ UNCHANGED <<snapVars, pc, updating, workVars, stopAsked, restVars, faults>>

DriveOut(c, i) ==
    /\ c \in May[i] \cap OutCodes /\ OnDrive(i)
    /\ Logs(<<Action(c, i, place[i])>>)
    /\ place' = [place EXCEPT ![i] = Away]
    /\ UNCHANGED <<snapVars, pc, updating, workVars, stopAsked, restVars, faults>>

\* A move inside the synchronized folder is listed as a move in, then a move out.
DriveMove(i, p) ==
    /\ "move" \in May[i] /\ OnDrive(i)
    /\ p \in Places[i] \ ({place[i]} \cup Inside(i)) /\ OnDrive(p)
    /\ Logs(<<Action("moveIn", i, p), Action("moveOut", i, place[i])>>)
    /\ place' = [place EXCEPT ![i] = p]
    /\ UNCHANGED <<snapVars, pc, updating, workVars, stopAsked, restVars, faults>>

\* An edit or a rename.
DriveEdit(i) ==
    /\ "edit" \in May[i] /\ OnDrive(i)
    /\ Logs(<<Action("edit", i, place[i])>>)
    /\ UNCHANGED <<place, snapVars, pc, updating, workVars, stopAsked, restVars, faults>>

Drive == \E i \in Items :
    \/ \E c \in InCodes, p \in Folders : DriveIn(c, i, p)
    \/ \E c \in OutCodes : DriveOut(c, i)
    \/ \E p \in Folders : DriveMove(i, p)
    \/ DriveEdit(i)
-----------------------------------------------------------------------------
(* The thread of the observer: execute.                                     *)

\* invalidateSnapshot: only a valid snapshot is emptied.
Invalidate == snap' = (IF valid THEN EmptySnapshot ELSE snap) /\ valid' = FALSE

\* A stop empties the snapshot; an invalid snapshot is made again. A thread that
\* is about to empty it has not been preempted for so long, unless "preempted".
LoopTop ==
    /\ pc = "loop"
    /\ \/ stopAsked /\ pc' = "off" /\ Invalidate /\ UNCHANGED updating
       \/ ~stopAsked /\ valid /\ pc' = "events" /\ UNCHANGED <<snapVars, updating>>
       \/ /\ ~stopAsked /\ ~valid /\ pc' = "list" /\ (toInit => "preempted" \in Races)
          /\ snap' = EmptySnapshot /\ updating' = TRUE /\ UNCHANGED valid
    /\ UNCHANGED <<driveVars, workVars, stopAsked, restVars, faults>>

\* The listing of the whole folder and its cursor, which is stored only if it
\* is not the one in memory. A stop while the job runs returns Ok.
ListAnswered ==
    /\ pc = "list" /\ ~stopAsked
    /\ cursor' = Len(log)
    /\ stored' = IF cursor = Len(log) THEN stored ELSE Len(log)
    /\ snap' = RemoveOrphans(ListInto(snap, Inside(Root)))
    /\ pc' = "filled"
    /\ UNCHANGED <<driveVars, valid, updating, page, moved, more, stopAsked, restVars, faults>>

ListFails ==
    /\ pc = "list" /\ updating' = FALSE
    /\ \/ Fault("request") /\ pc' = "off" /\ UNCHANGED cursor
       \/ Fault("db") /\ cursor # Len(log) /\ cursor' = Len(log) /\ pc' = "off"
       \/ stopAsked /\ pc' = "loop" /\ UNCHANGED <<cursor, faults>>
    /\ UNCHANGED <<driveVars, snapVars, page, moved, more, stored, stopAsked, restVars>>

SetValid ==
    /\ pc = "filled" /\ updating' = FALSE
    /\ valid' = ~stopAsked /\ pc' = IF stopAsked THEN "loop" ELSE "events"
    /\ UNCHANGED <<driveVars, snap, workVars, stopAsked, restVars, faults>>

\* Mutant: the cursor is that of the last answer, stored or not.
CursorOfLastAnswer == cursor
\* listingCursor
ListingCursor == stored

\* processEvents reads the cursor in the database, then polls, unless an update is forced.
ReadCursor ==
    /\ pc = "events"
    /\ \/ stopAsked /\ pc' = "loop" /\ UNCHANGED <<cursor, faults>>
       \/ Fault("db") /\ ~stopAsked /\ pc' = "off" /\ UNCHANGED cursor
       \/ /\ ~stopAsked /\ cursor' = ListingCursor
          /\ pc' = IF updating THEN "fetch" ELSE IF valid THEN "poll" ELSE "loop"
          /\ UNCHANGED faults
    /\ UNCHANGED <<driveVars, snapVars, updating, page, moved, more, stored, stopAsked, restVars>>

\* sendLongPoll. A bad gateway counts as a change.
LongPoll ==
    /\ pc = "poll"
    /\ \/ stopAsked /\ pc' = "loop" /\ UNCHANGED <<updating, faults>>
       \/ Fault("request") /\ pc' = "off" /\ UNCHANGED updating
       \/ Fault("request") /\ pc' = "fetch" /\ updating' = TRUE
       \/ updating /\ pc' = "fetch" /\ UNCHANGED <<updating, faults>>
       \/ cursor < Len(log) /\ pc' = "fetch" /\ updating' = TRUE /\ UNCHANGED faults
       \/ cursor = Len(log) /\ pc' = "loop" /\ UNCHANGED <<updating, faults>>
    /\ UNCHANGED <<driveVars, snapVars, workVars, stopAsked, restVars>>

\* Whatever has left the loop over the pages, processEvents returns Ok.
ProcessEventsReturns == updating' = FALSE /\ pc' = "loop" /\ page' = <<>> /\ moved' = {}

\* The pages the server may cut after c; it does not part a move from its move
\* out, unless "split".
Cuts(c) == {n \in c .. Len(log) :
    /\ n = c => c = Len(log)
    /\ ("split" \notin Races /\ n \in 1 .. Len(log) - 1 /\ log[n].code = "moveIn")
          => ~(log[n + 1].code = "moveOut" /\ log[n + 1].item = log[n].item)}

\* An answer without has_more ("malformed"): the function returns, the cursor is
\* stored, the actions are dropped and _updating is kept.
FetchPage ==
    /\ pc = "fetch" /\ ~stopAsked /\ cursor # NoCursor
    /\ \E n \in Cuts(cursor), complete \in {TRUE, "malformed" \notin Races} :
        /\ cursor' = n /\ stored' = IF n = cursor THEN stored ELSE n
        /\ page' = IF complete THEN SubSeq(log, cursor + 1, n) ELSE <<>>
        /\ more' = (complete /\ n < Len(log))
        /\ pc' = IF complete THEN "act" ELSE "off"
    /\ moved' = {}
    /\ UNCHANGED <<driveVars, snapVars, updating, stopAsked, restVars, faults>>

\* A failed request keeps the cursor. A cursor that is not stored is in memory
\* only and the page is dropped. An empty cursor asks for a full listing.
FetchFails ==
    /\ pc = "fetch"
    /\ \/ stopAsked /\ UNCHANGED <<snapVars, cursor, faults>>
       \/ Fault("request") /\ UNCHANGED <<snapVars, cursor>>
       \/ /\ Fault("db") /\ ~stopAsked /\ cursor # NoCursor
          /\ cursor' \in Cuts(cursor) \ {cursor} /\ UNCHANGED snapVars
       \/ cursor = NoCursor /\ ~stopAsked /\ Invalidate /\ UNCHANGED <<cursor, faults>>
    /\ ProcessEventsReturns
    /\ UNCHANGED <<driveVars, more, stored, stopAsked, restVars>>

-----------------------------------------------------------------------------
(* The actions of a page: processActions and processAction.                 *)

Taken == Head(page)
\* Mutant: the items that have moved in are not kept track of.
IgnoredByRightsOnly ==
    \/ Taken.code = "grant" /\ ~OnDrive(Taken.item)
    \/ Taken.code = "revoke" /\ OnDrive(Taken.item)

\* The rights are asked of the server, which answers for the present.
Ignored ==
    \/ Taken.code = "grant" /\ ~OnDrive(Taken.item)
    \/ Taken.code = "revoke" /\ OnDrive(Taken.item)
    \/ Taken.code \in {"moveOut", "revoke"} /\ Taken.item \in moved
\* A directory that comes is listed, as it is now.
Explores == Taken.code \in InCodes \ {"create"} /\ Taken.item \in Dirs

Acts == pc = "act" /\ ~stopAsked /\ page # <<>>
ActionDone(s) ==
    /\ snap' = s /\ page' = Tail(page) /\ pc' = pc
    /\ moved' = IF Taken.code = "moveIn" THEN moved \cup {Taken.item} ELSE moved
    /\ UNCHANGED <<driveVars, valid, updating, cursor, more, stored, stopAsked, restVars, faults>>

IgnoreAction == Acts /\ Ignored /\ ActionDone(snap)

UpdateFromAction ==
    /\ Acts /\ ~Ignored /\ ~Explores /\ Taken.code \in InCodes \cup {"edit"}
    /\ ActionDone(UpdateItem(snap, Taken.item, Taken.parent))

RemoveFromAction ==
    /\ Acts /\ ~Ignored /\ Taken.code \in OutCodes
    /\ ActionDone(RemoveItem(snap, Taken.item))

\* The item is updated as of the action, then what is below it as of now.
ExploreResult ==
    ListInto(UpdateItem(snap, Taken.item, Taken.parent), Inside(Taken.item))

\* The search for orphans follows a cycle of parents for ever.
ExploreDirectory ==
    /\ Acts /\ ~Ignored /\ Explores
    /\ IF \E i \in Known(ExploreResult) : Endless(ExploreResult, i)
       THEN /\ snap' = ExploreResult /\ pc' = "stuck"
            /\ UNCHANGED <<driveVars, valid, updating, workVars, stopAsked, restVars, faults>>
       ELSE ActionDone(RemoveOrphans(ExploreResult))

\* An action that fails, as the listing of a directory that has left may, has
\* the snapshot made again.
ActionFails ==
    /\ Acts /\ Invalidate /\ ProcessEventsReturns
    /\ \/ Fault("request")
       \/ Explores /\ ~Ignored /\ ~OnDrive(Taken.item) /\ UNCHANGED faults
    /\ UNCHANGED <<driveVars, cursor, more, stored, stopAsked, restVars>>

PageEnds ==
    /\ pc = "act" /\ page = <<>> /\ more /\ ~stopAsked
    /\ pc' = "fetch"
    /\ UNCHANGED <<driveVars, snapVars, updating, workVars, stopAsked, restVars, faults>>

\* A stop drops what is left of the page.
EventsEnd ==
    /\ pc = "act" /\ (stopAsked \/ (page = <<>> /\ ~more))
    /\ ProcessEventsReturns
    /\ UNCHANGED <<driveVars, snapVars, cursor, more, stored, stopAsked, restVars, faults>>

Observer ==
    \/ LoopTop \/ ListAnswered \/ ListFails \/ SetValid \/ ReadCursor \/ LongPoll
    \/ FetchPage \/ FetchFails
    \/ IgnoreAction \/ UpdateFromAction \/ RemoveFromAction
    \/ ExploreDirectory \/ ActionFails \/ PageEnds \/ EventsEnd
-----------------------------------------------------------------------------
(* The rest of the program.                                                 *)

\* The loop of SyncPalWorker starts an observer that is not running.
Start ==
    /\ pc = "off" /\ pc' = "loop" /\ stopAsked' = FALSE
    /\ UNCHANGED <<driveVars, snapVars, updating, workVars, restVars, faults>>

Stop ==
    /\ Fault("stop") /\ pc # "off" /\ ~stopAsked /\ stopAsked' = TRUE
    /\ UNCHANGED <<driveVars, snapVars, pc, updating, workVars, restVars>>

\* Only the databases survive.
Crash ==
    /\ Fault("crash")
    /\ snap' = EmptySnapshot /\ valid' = FALSE /\ pc' = "off" /\ updating' = FALSE
    /\ cursor' = NoCursor /\ page' = <<>> /\ moved' = {} /\ more' = FALSE
    /\ stopAsked' = FALSE /\ cycle' = FALSE /\ toInit' = FALSE
    /\ UNCHANGED <<driveVars, stored, db>>

\* A cycle starts on a snapshot that is valid and not being updated: a local
\* change is always there to start one. The loop starts none after it has
\* stopped the observer.
StartCycle ==
    /\ ~cycle /\ valid /\ ~updating /\ ~stopAsked /\ cycle' = TRUE
    /\ UNCHANGED <<driveVars, snapVars, pc, updating, workVars, stopAsked, db, toInit, faults>>

\* The executor uploads a file and records it in the database.
Upload(i, p) ==
    /\ cycle /\ i \in Uploads /\ place[i] = Away /\ NeverSeen(i)
    /\ p \in Places[i] /\ OnDrive(p)
    /\ Logs(<<Action("create", i, p)>>)
    /\ place' = [place EXCEPT ![i] = p] /\ db' = db \cup {i}
    /\ UNCHANGED <<snapVars, pc, updating, workVars, stopAsked, cycle, toInit, faults>>

\* The executor ends: forceUpdate.
ExecutorEnds ==
    /\ cycle /\ cycle' = FALSE /\ updating' = TRUE
    /\ UNCHANGED <<driveVars, snapVars, pc, workVars, stopAsked, db, toInit, faults>>

\* A cycle aborts: forceUpdate, then invalidateSnapshot, which tests the snapshot
\* and empties it.
CycleAborts ==
    /\ cycle /\ Fault("abort") /\ cycle' = FALSE /\ updating' = TRUE /\ toInit' = valid
    /\ UNCHANGED <<driveVars, snapVars, pc, workVars, stopAsked, db>>

InvalidateAsked ==
    /\ toInit /\ toInit' = FALSE /\ snap' = EmptySnapshot /\ valid' = FALSE
    /\ UNCHANGED <<driveVars, pc, updating, workVars, stopAsked, cycle, db, faults>>

Rest ==
    \/ Start \/ Stop \/ Crash \/ StartCycle \/ ExecutorEnds \/ CycleAborts \/ InvalidateAsked
    \/ \E i \in Items, p \in Folders : Upload(i, p)

Init ==
    /\ place = Home /\ log = <<>>
    /\ snap = EmptySnapshot /\ valid = FALSE
    /\ pc = "off" /\ updating = FALSE /\ cursor = NoCursor
    /\ page = <<>> /\ moved = {} /\ more = FALSE /\ stopAsked = FALSE
    /\ stored = NoCursor /\ cycle = FALSE /\ db = {} /\ toInit = FALSE /\ faults = 0

Next == Drive \/ Observer \/ Rest
\* The thread of the observer goes on, and the loop restarts it.
Spec == Init /\ [][Next]_vars /\ WF_vars(Observer) /\ WF_vars(Start) /\ WF_vars(InvalidateAsked)
-----------------------------------------------------------------------------
(* Properties.                                                              *)

\* The state keeps its type: the fields of RemoteFileSystemObserverWorker and
\* Snapshot; no cursor is beyond the log.
TypeOK ==
    /\ place \in [Items -> Folders \cup {Away}] /\ log \in Seq(Actions)
    /\ snap \in Snapshots /\ valid \in BOOLEAN
    /\ pc \in Stages /\ updating \in BOOLEAN
    /\ cursor \in NoCursor .. Len(log) /\ stored \in NoCursor .. Len(log)
    /\ page \in Seq(Actions) /\ moved \subseteq Items /\ more \in BOOLEAN
    /\ stopAsked \in BOOLEAN /\ cycle \in BOOLEAN /\ db \subseteq Items
    /\ toInit \in BOOLEAN /\ faults \in 0 .. MaxFaults

\* The children lists are the parents read backwards, and a known item has a
\* known parent or none (updateItem, removeItem): what the removal of a
\* directory, which follows the lists, and the search for orphans, which
\* follows the parents, both rely on.
ChildrenAreInverse ==
    /\ \A d \in Folders : snap.children[d] = {i \in Items : snap.parent[i] = d}
    /\ \A i \in Items : snap.parent[i] \in Items => snap.parent[i] \in Known(snap)

\* Between two answers and unless it is stopped, a valid snapshot whose cursor
\* is at the end of the log is the drive: no listing, page, error, stop or
\* invalidation has lost an action (remotefilesystemobserverworker.cpp:138-259).
SnapshotIsTheDrive ==
    valid /\ ~stopAsked /\ pc \in {"loop", "events", "poll", "fetch", "off"} /\ stored = Len(log)
        => SeenTree(snap) = DriveTree

\* When the drive is quiet and nothing fails any more, the snapshot becomes the
\* drive and stays so.
EventuallyTheDrive == <>[](valid /\ SeenTree(snap) = DriveTree)

\* A cycle finds in the snapshot every file that has been uploaded and is on the
\* drive: computeFSOperations takes one that is missing for deleted
\* (computefsoperationworker.cpp:253), and the local file is deleted.
NoFalseDeletion ==
    [][StartCycle => \A i \in db : OnDrive(i) => SeenTree(snap)[i] # Absent]_vars
=============================================================================
