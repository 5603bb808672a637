--------------------------- MODULE LocalObserver ---------------------------
(***************************************************************************)
(* The local file system observer                                          *)
(* (localfilesystemobserverworker.cpp): a thread explores the              *)
(* synchronized folder into the snapshot whenever that is not valid, and   *)
(* the thread of the folder watcher keeps it up to date from the events    *)
(* that the operating system reports. An event has a path and a type, and  *)
(* is handled later: what is done with it depends on what the disk has at  *)
(* this path by then. The events that arrive during an exploration wait    *)
(* for its end.                                                            *)
(*                                                                         *)
(* On Windows and macOS the system watches the whole folder. On Linux      *)
(* folderwatcher_linux.cpp asks inotify to watch each folder, and names an *)
(* event by the path it has noted for the watch.                           *)
(*                                                                         *)
(* The disk and its users are external. An id is an inode, which no other  *)
(* item ever gets; a name is a number, and of a content only its version   *)
(* is kept. Exclusion rules, links and access rights are left out.         *)
(***************************************************************************)
EXTENDS Paths, TLC

CONSTANTS
    Starts,         \* platforms, with a disk and a folder that is outside
    Names,          \* what an item may be called
    May(_),         \* what the users do, by platform: they change "files" and "folders",
                    \* "before" the folder is watched, move and replace "during" its
                    \* exploration, or onto a path of which a change was not handled, "hasty"
    Faults(_),      \* what may fail, by platform: a "change", an "exploration" or the
                    \* "executor"
    MaxChanges,     \* bound on what the users do
    MaxEvents,      \* bound on the events the system hands over at once
    MaxFaults       \* bound on the failures and invalidations

ASSUME LocalObserverAssumption ==
    /\ MaxChanges \in Nat /\ MaxFaults \in Nat /\ MaxEvents \in Nat \ {0}
    /\ \A s \in Starts : s.platform \in {"whole", "inotify"}

Explorer == "explorer"      \* the thread of the observer
Watcher == "watcher"        \* that of the folder watcher
Threads == {Explorer, Watcher}

VARIABLES
    platform,
    extendedLog,    \* ParametersCache::isExtendedLogEnabled
    disk, outside,  \* the items, with parent, name, kind and version
    changes,        \* what the users did
    events,         \* what the system has not handed over yet
    watches,        \* the folders inotify watches
    watched,        \* _watchToPath
    paths,          \* the keys of _pathToWatch
    snap, valid,    \* the snapshot
    pending,        \* _pendingFileEvents
    updating,       \* _updating
    state,          \* where each thread is
    batch,          \* the changes that changesDetected has left, by thread
    walk,           \* the folders that exploreDir is in, by thread
    last,           \* the change after which the watcher looks for a new folder
    faults

userVars == <<platform, extendedLog, disk, outside, changes>>
watchVars == <<watches, watched, paths>>
threadVars == <<state, batch, walk, last>>
vars == <<userVars, events, watchVars, snap, valid, pending, updating, threadVars, faults>>

-----------------------------------------------------------------------------
\* What can be found at a path: an item of f, or None. A snapshot may have two items
\* with one path for some time, and finds either (itemId).
Content(f, i) == {k \in DOMAIN f : f[k].parent = i}
Found(f, path) ==
    LET named(p, n) == {i \in Content(f, p) : f[i].name = n}
        next(ps, n) == UNION {IF p = None \/ named(p, n) = {} THEN {None} ELSE named(p, n) : p \in ps}
    IN  FoldLeft(next, {Root}, path)
OnDisk(path) == CHOOSE i \in Found(disk, path) : TRUE
IsFolder(i) == i = Root \/ (i # None /\ disk[i].dir)

\* Snapshot::updateItem, removeItem and exists.
Below(f, i) ==
    LET below[n \in 0..Cardinality(DOMAIN f)] ==
            IF n = 0 THEN Content(f, i)
            ELSE below[n - 1] \cup UNION {Content(f, k) : k \in below[n - 1]}
    IN  below[Cardinality(DOMAIN f)]
Recorded(f, i) == (i :> disk[i]) @@ f
Removed(f, i) == [k \in DOMAIN f \ ({i} \cup Below(f, i)) |-> f[k]]
Seen(f) == [i \in Below(f, Root) |-> f[i]]

-----------------------------------------------------------------------------
(* The disk and its users.                                                  *)

Alive == state[Watcher] # "crashed"
Watching == state[Watcher] \notin {"off", "crashed"}
EventAt(p, n, op) == [in |-> p, path |-> Append(PathIn(disk, p), n), name |-> n, op |-> op]
Event(i, op) == EventAt(disk[i].parent, disk[i].name, op)
Reported(list) ==
    SelectSeq(list, LAMBDA e : Watching /\ (platform = "inotify" => e.in \in watches))

\* What an item that left a place is reported as.
Left == IF platform = "inotify" THEN "delete" ELSE "move"
FreeIn(p, n) == ~\E i \in Content(disk, p) : disk[i].name = n
Folders == {Root} \cup {i \in DOMAIN disk : disk[i].dir}
MayMove == (state[Explorer] = "loop" /\ valid) \/ "during" \in May(platform)
MayChange(dir) ==
    /\ (IF dir THEN "folders" ELSE "files") \in May(platform)
    /\ Watching \/ "before" \in May(platform)
    /\ ~dir \/ MayMove
    /\ Alive /\ changes < MaxChanges
MayTake(p, n) ==
    LET waiting == events \o pending \o batch[Explorer] \o batch[Watcher]
    IN  \/ "hasty" \in May(platform)
        \/ \A k \in DOMAIN waiting : waiting[k].path # Append(PathIn(disk, p), n)
Changed(d, list) ==
    /\ disk' = d /\ events' = events \o Reported(list)
    /\ changes' = changes + 1
    /\ UNCHANGED <<platform, extendedLog, watchVars, snap, valid, pending, updating, threadVars, faults>>

CreateItem ==
    \E p \in Folders, n \in Names, dir \in BOOLEAN :
        /\ MayChange(dir) /\ FreeIn(p, n)
        /\ Changed(((10 + changes) :> [parent |-> p, name |-> n, dir |-> dir, ver |-> 0]) @@ disk,
                   <<EventAt(p, n, "create")>>)
        /\ UNCHANGED outside
EditFile ==
    \E i \in DOMAIN disk :
        /\ MayChange(FALSE) /\ ~disk[i].dir
        /\ Changed([disk EXCEPT ![i].ver = @ + 1], <<Event(i, "edit")>>)
        /\ UNCHANGED outside
MoveItem ==
    \E i \in DOMAIN disk : \E p \in Folders \ ({i} \cup Below(disk, i)), n \in Names :
        /\ MayChange(disk[i].dir) /\ FreeIn(p, n) /\ MayTake(p, n)
        /\ Changed([disk EXCEPT ![i].parent = p, ![i].name = n],
                   <<Event(i, Left), EventAt(p, n, "move")>>)
        /\ UNCHANGED outside
\* Of the file that is replaced nothing is reported.
ReplaceFile ==
    \E i, j \in DOMAIN disk :
        /\ MayChange(FALSE) /\ i # j /\ ~disk[i].dir /\ ~disk[j].dir
        /\ MayMove /\ MayTake(disk[j].parent, disk[j].name)
        /\ Changed([k \in DOMAIN disk \ {j} |->
                        IF k = i THEN [disk[i] EXCEPT !.parent = disk[j].parent, !.name = disk[j].name]
                        ELSE disk[k]],
                   <<Event(i, Left), Event(j, "move")>>)
        /\ UNCHANGED outside
DeleteItem ==
    \E i \in DOMAIN disk :
        /\ MayChange(disk[i].dir) /\ Content(disk, i) = {}
        /\ Changed([k \in DOMAIN disk \ {i} |-> disk[k]], <<Event(i, "delete")>>)
        /\ UNCHANGED outside

\* A folder leaves the synchronized one, or comes in, with all it has.
TakeOut ==
    \E i \in DOMAIN disk :
        /\ MayChange(TRUE) /\ disk[i].dir
        /\ Changed(Pruned(disk, i), <<Event(i, Left)>>)
        /\ UNCHANGED outside
BringIn ==
    \E p \in Folders, n \in Names :
        /\ MayChange(TRUE) /\ FreeIn(p, n) /\ DOMAIN outside # {}
        /\ Changed([i \in DOMAIN outside |-> IF outside[i].parent = None
                                             THEN [outside[i] EXCEPT !.parent = p, !.name = n]
                                             ELSE outside[i]] @@ disk,
                   <<EventAt(p, n, "move")>>)
        /\ outside' = <<>>

-----------------------------------------------------------------------------
(* What both threads do: changesDetected, exploreDir.                       *)

Fault(kind) == kind \in Faults(platform) /\ faults < MaxFaults /\ faults' = faults + 1

\* invalidateSnapshot, when the snapshot is s, with what a thread drops.
Invalidated(s) ==
    /\ valid' = FALSE
    /\ snap' = IF valid THEN <<>> ELSE s
\* Mutant: the rest of the changes is dropped, and the snapshot stays valid.
DropTheRestOnly(t, s) ==
    /\ batch' = [batch EXCEPT ![t] = <<>>] /\ walk' = [walk EXCEPT ![t] = <<>>]
    /\ snap' = s /\ UNCHANGED valid

DropTheRest(t, s) ==
    /\ batch' = [batch EXCEPT ![t] = <<>>] /\ walk' = [walk EXCEPT ![t] = <<>>]
    /\ Invalidated(s)

\* What a thread is at.
Handling(t) == Alive /\ batch[t] # <<>> /\ walk[t] = <<>>
Exploring(t) == Alive /\ walk[t] # <<>>

Unopened(path) == [path |-> path, open |-> FALSE, left |-> {}]
Kept(t, s) == /\ snap' = s /\ batch' = [batch EXCEPT ![t] = Tail(@)]
              /\ UNCHANGED <<valid, walk>>
KeptAndExplored(t, s, path) ==
    /\ snap' = s /\ batch' = [batch EXCEPT ![t] = Tail(@)]
    /\ walk' = [walk EXCEPT ![t] = <<Unopened(path)>>]
    /\ UNCHANGED valid

\* One change: what the snapshot had at the path, and what the disk has now. Without
\* the extended log the insertion of a new item is always taken for a failure.
HandleChange(t) ==
    /\ Handling(t)
    /\ updating' = TRUE
    /\ LET c == Head(batch[t])
           now == OnDisk(c.path)
           unchanged == now \in DOMAIN snap /\ snap[now].ver = disk[now].ver
       IN  \E was \in Found(snap, c.path) :
            LET without == IF was = None THEN snap ELSE Removed(snap, was)
            IN  IF now = None \/ (c.op = "delete" /\ was \notin {None, now})
                THEN Kept(t, without)
                ELSE IF c.op = "edit" /\ unchanged THEN Kept(t, snap)
                ELSE IF now \in DOMAIN Seen(snap) THEN Kept(t, Recorded(snap, now))
                ELSE IF c.op = "delete" THEN DropTheRest(t, snap)   \* nothing to remove
                ELSE IF ~extendedLog THEN DropTheRest(t, Recorded(without, now))
                ELSE IF disk[now].dir THEN KeptAndExplored(t, Recorded(without, now), c.path)
                ELSE Kept(t, Recorded(without, now))
    /\ UNCHANGED <<userVars, events, watchVars, pending, state, last, faults>>

\* Something cannot be read.
ChangeFails(t) ==
    /\ Handling(t) /\ Fault("change")
    /\ updating' = TRUE
    /\ DropTheRest(t, snap)
    /\ UNCHANGED <<userVars, events, watchVars, pending, state, last>>

ExplorationFails(t) ==
    IF state[t] = "exploring"
    THEN /\ walk' = [walk EXCEPT ![t] = <<>>] /\ state' = [state EXCEPT ![t] = "failing"]
         /\ UNCHANGED <<snap, valid, batch, last>>
    ELSE DropTheRest(t, snap) /\ UNCHANGED <<state, last>>

\* A folder that is no more where it was is skipped, or ends the exploration, as the
\* library has it; the first one always does.
OpenFolder(t) ==
    /\ Exploring(t) /\ ~Last(walk[t]).open
    /\ LET path == Last(walk[t]).path
           i == OnDisk(path)
           frame == [path |-> path, open |-> TRUE, left |-> {disk[k].name : k \in Content(disk, i)}]
       IN  IF IsFolder(i)
           THEN /\ walk' = [walk EXCEPT ![t] = Append(Front(@), frame)]
                /\ UNCHANGED <<state, batch, last, snap, valid>>
           ELSE \/ ExplorationFails(t)
                \/ /\ Len(walk[t]) > 1
                   /\ walk' = [walk EXCEPT ![t] = Front(@)]
                   /\ UNCHANGED <<state, batch, last, snap, valid>>
    /\ UNCHANGED <<userVars, events, watchVars, pending, updating, faults>>

ExploreEntry(t) ==
    /\ Exploring(t) /\ Last(walk[t]).open
    /\ \E n \in Last(walk[t]).left :
        LET frame == Last(walk[t])
            path == Append(frame.path, n)
            i == OnDisk(path)
            rest == Append(Front(walk[t]), [frame EXCEPT !.left = @ \ {n}])
        IN  /\ snap' = IF i = None THEN snap ELSE Recorded(snap, i)
            /\ walk' = [walk EXCEPT ![t] = IF i # None /\ disk[i].dir THEN Append(rest, Unopened(path))
                                           ELSE rest]
    /\ UNCHANGED <<userVars, events, watchVars, valid, pending, updating, state, batch, last, faults>>
CloseFolder(t) ==
    /\ Exploring(t) /\ Last(walk[t]).open /\ Last(walk[t]).left = {}
    /\ walk' = [walk EXCEPT ![t] = Front(@)]
    /\ UNCHANGED <<userVars, events, watchVars, snap, valid, pending, updating, state, batch, last, faults>>

ExploreFails(t) ==
    /\ Exploring(t) /\ Fault("exploration")
    /\ ExplorationFails(t)
    /\ UNCHANGED <<userVars, events, watchVars, pending, updating>>

ThreadStep(t) ==
    \/ HandleChange(t) \/ ChangeFails(t) \/ OpenFolder(t) \/ ExploreFails(t)
    \/ ExploreEntry(t) \/ CloseFolder(t)

-----------------------------------------------------------------------------
(* The thread of the observer: execute, generateInitialSnapshot. A thread   *)
(* that has _recursiveMutex is handling changes.                            *)

Idle(t) == batch[t] = <<>> /\ walk[t] = <<>>
LockedBy(t) == state[t] = "handling" /\ (t = Watcher => ~Idle(t))

Generate ==
    /\ state[Explorer] = "loop" /\ ~valid
    /\ snap' = <<>> /\ updating' = TRUE
    /\ state' = [state EXCEPT ![Explorer] = "exploring"]
    /\ walk' = [walk EXCEPT ![Explorer] = <<Unopened(<<>>)>>]
    /\ UNCHANGED <<userVars, events, watchVars, valid, pending, batch, last, faults>>
Explored ==
    /\ state[Explorer] = "exploring" /\ walk[Explorer] = <<>>
    /\ valid' = TRUE
    /\ state' = [state EXCEPT ![Explorer] = "explored"]
    /\ UNCHANGED <<userVars, events, watchVars, snap, pending, updating, batch, walk, last, faults>>

\* Mutant: the events that waited are cleared before they are handled.
DrainForgets ==
    /\ state[Explorer] \in {"explored", "failing"} /\ ~LockedBy(Watcher)
    /\ pending' = <<>> /\ updating' = FALSE
    /\ state' = [state EXCEPT ![Explorer] = IF @ = "failing" THEN "failed" ELSE "loop"]
    /\ UNCHANGED <<userVars, events, watchVars, snap, valid, batch, walk, last, faults>>

\* The events that waited are handled, or dropped when the snapshot is not valid.
Drain ==
    /\ state[Explorer] \in {"explored", "failing"} /\ ~LockedBy(Watcher)
    /\ pending' = <<>>
    /\ IF valid /\ pending # <<>>
       THEN /\ batch' = [batch EXCEPT ![Explorer] = pending]
            /\ state' = [state EXCEPT ![Explorer] = "handling"]
            /\ UNCHANGED updating
       ELSE /\ state' = [state EXCEPT ![Explorer] = IF @ = "failing" THEN "failed" ELSE "loop"]
            /\ updating' = FALSE
            /\ UNCHANGED batch
    /\ UNCHANGED <<userVars, events, watchVars, snap, valid, walk, last, faults>>
Drained ==
    /\ state[Explorer] = "handling" /\ Idle(Explorer)
    /\ state' = [state EXCEPT ![Explorer] = "loop"]
    /\ updating' = FALSE
    /\ UNCHANGED <<userVars, events, watchVars, snap, valid, pending, batch, walk, last, faults>>

\* Mutant: the flag is reset without the lock.
SettleWithoutTheLock ==
    /\ state[Explorer] = "loop" /\ valid /\ updating
    /\ updating' = FALSE
    /\ UNCHANGED <<userVars, events, watchVars, snap, valid, pending, threadVars, faults>>

\* A second after the last change.
Settle ==
    /\ state[Explorer] = "loop" /\ valid /\ updating /\ ~LockedBy(Watcher)
    /\ updating' = FALSE
    /\ UNCHANGED <<userVars, events, watchVars, snap, valid, pending, threadVars, faults>>

\* The executor invalidates the snapshot: it made too many changes, or could not
\* finish one.
ExecutorInvalidates ==
    /\ valid /\ Alive /\ Fault("executor")
    /\ Invalidated(snap)
    /\ UNCHANGED <<userVars, events, watchVars, pending, updating, threadVars>>

\* The synchronization loop stops what is left of an observer that failed, and starts
\* it again. The watcher ends first, with the events it has not been handed over.
Restart ==
    /\ state[Explorer] = "failed" /\ state[Watcher] \in {"off", "reading"}
    /\ state' = [state EXCEPT ![Explorer] = "loop", ![Watcher] = "off"]
    /\ events' = <<>> /\ watches' = {}
    /\ UNCHANGED <<userVars, watched, paths, snap, valid, pending, updating, batch, walk, last, faults>>

-----------------------------------------------------------------------------
(* The thread of the folder watcher.                                        *)

\* addFolderRecursive, for the folder i that is at the path. findSubFolders returns the
\* first entry of it, if that is a folder; it reads past the end of an empty folder.
Register(i, path) ==
    IF path \in paths \/ ~IsFolder(i) THEN UNCHANGED watchVars
    ELSE \E first \in Content(disk, i) :
            LET below == Append(path, disk[first].name)
                more == {k \in {first} : disk[k].dir /\ below \notin paths}
            IN  /\ watches' = watches \cup {i} \cup more
                /\ watched' = [k \in DOMAIN watched \cup {i} \cup more |->
                                  IF k \in DOMAIN watched THEN watched[k]
                                  ELSE IF k = i THEN path ELSE below]
                /\ paths' = paths \cup {path} \cup {below : k \in more}
Registered(i, path) ==
    IF platform = "whole"
    THEN UNCHANGED watchVars /\ state' = [state EXCEPT ![Watcher] = "reading"]
    ELSE IF path \notin paths /\ IsFolder(i) /\ Content(disk, i) = {}
    THEN UNCHANGED watchVars /\ state' = [state EXCEPT ![Watcher] = "crashed", ![Explorer] = "crashed"]
    ELSE Register(i, path) /\ state' = [state EXCEPT ![Watcher] = "reading"]

StartWatching ==
    /\ state[Watcher] = "off" /\ state[Explorer] # "failed"
    /\ Registered(Root, <<>>)
    /\ UNCHANGED <<userVars, events, snap, valid, pending, updating, batch, walk, last, faults>>

\* The system hands some events over, inotify one by one.
PathOf(e) == IF platform = "inotify" THEN Append(watched[e.in], e.name) ELSE e.path
Receive ==
    /\ state[Watcher] = "reading" /\ events # <<>> /\ ~LockedBy(Explorer)
    /\ \E k \in 1..Min({Len(events), IF platform = "inotify" THEN 1 ELSE MaxEvents}) :
        LET list == [j \in 1..k |-> [path |-> PathOf(events[j]), op |-> events[j].op]]
        IN  /\ events' = SubSeq(events, k + 1, Len(events))
            /\ last' = list[k]
            /\ state' = [state EXCEPT ![Watcher] = "handling"]
            /\ IF valid THEN /\ batch' = [batch EXCEPT ![Watcher] = list]
                             /\ updating' = TRUE
                             /\ UNCHANGED pending
               ELSE pending' = pending \o list /\ UNCHANGED <<batch, updating>>
    /\ UNCHANGED <<userVars, watchVars, snap, valid, walk, faults>>

\* After it a folder that came is watched. The one that went should not be any more,
\* but removeFoldersBelow stops at the first path, its own.
Handled ==
    /\ state[Watcher] = "handling" /\ Idle(Watcher)
    /\ last' = <<>>
    /\ IF last.op \in {"create", "move"} THEN Registered(OnDisk(last.path), last.path)
       ELSE UNCHANGED watchVars /\ state' = [state EXCEPT ![Watcher] = "reading"]
    /\ UNCHANGED <<userVars, events, snap, valid, pending, updating, batch, walk, faults>>

-----------------------------------------------------------------------------
Init ==
    /\ \E start \in Starts :
        platform = start.platform /\ disk = start.disk /\ outside = start.outside
    /\ extendedLog \in BOOLEAN
    /\ changes = 0 /\ faults = 0
    /\ events = <<>> /\ pending = <<>> /\ last = <<>>
    /\ watches = {} /\ watched = <<>> /\ paths = {}
    /\ snap = <<>> /\ valid = FALSE /\ updating = FALSE
    /\ state = [t \in Threads |-> IF t = Explorer THEN "loop" ELSE "off"]
    /\ batch = [t \in Threads |-> <<>>] /\ walk = [t \in Threads |-> <<>>]

Users ==
    \/ CreateItem \/ EditFile \/ MoveItem \/ ReplaceFile \/ DeleteItem \/ TakeOut \/ BringIn
ExplorerStep ==
    \/ Generate \/ Explored \/ Drain \/ Drained \/ Settle \/ ThreadStep(Explorer)
WatcherStep == StartWatching \/ Receive \/ Handled \/ ThreadStep(Watcher)
\* Everything was handed over and handled.
Quiet ==
    /\ valid /\ ~updating /\ Watching /\ events = <<>> /\ pending = <<>>
    /\ state[Explorer] = "loop" /\ state[Watcher] = "reading"
Rest == changes = MaxChanges /\ Quiet /\ UNCHANGED vars

Next == Users \/ ExplorerStep \/ WatcherStep \/ ExecutorInvalidates \/ Restart \/ Rest

\* Both threads run, and the loop looks after the observer; the users are free.
Fairness == WF_vars(ExplorerStep) /\ WF_vars(WatcherStep) /\ WF_vars(Restart)
Spec == Init /\ [][Next]_vars /\ Fairness

-----------------------------------------------------------------------------
\* The threads keep to their types; the changes of one thread are handled while the
\* other handles none (_recursiveMutex), and an exploration belongs to a thread that
\* handles changes or makes the snapshot.
TypeOK ==
    /\ valid \in BOOLEAN /\ updating \in BOOLEAN
    /\ \A t \in Threads : /\ batch[t] # <<>> => state[t] \in {"handling", "crashed"}
                          /\ walk[t] # <<>> => state[t] \in {"handling", "exploring", "crashed"}
    /\ batch[Explorer] = <<>> \/ batch[Watcher] = <<>>
    /\ watches \subseteq DOMAIN watched

\* Once every event was handed over and handled, whatever the disk had at its path by
\* then, the snapshot has every item of the disk, at its place and in its version, and
\* no other.
SnapshotIsTheDisk == Quiet => Seen(snap) = disk

\* The synchronization loop starts a cycle when the snapshot is valid and _updating is
\* not set: no folder is half explored then, and no change half handled.
NoHalfSnapshotIsUsed == valid /\ ~updating => \A t \in Threads : Idle(t)

\* When the users have stopped, the snapshot becomes that of the disk, after failures,
\* invalidations and restarts as well.
EventuallyTheDisk == <>[](valid /\ Seen(snap) = disk)
=============================================================================
