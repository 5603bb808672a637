------------------------ MODULE LocalObserverProofs ------------------------
(***************************************************************************)
(* What holds of the two threads of the local file system observer         *)
(* whatever the disk, what the users do to it, what fails, and how many    *)
(* events the system hands over at once.                                   *)
(***************************************************************************)
EXTENDS LocalObserver, TLAPS

(***************************************************************************)
(* The inductive invariant. That no half made snapshot is used rests on    *)
(* the lock and on one flag: as long as the observer makes the snapshot,   *)
(* or handles what waited, the flag is set; while it handles changes the   *)
(* watcher handles none; so whoever resets the flag does it when both      *)
(* threads are idle, and whoever takes up a change sets it.                *)
(***************************************************************************)
ExplorerPlaces ==
    {"loop", "exploring", "failing", "explored", "handling", "failed", "crashed"}
WatcherPlaces == {"off", "reading", "handling", "crashed"}

Tables ==
    /\ state = [t \in Threads |-> state[t]]
    /\ batch = [t \in Threads |-> batch[t]]
    /\ walk = [t \in Threads |-> walk[t]]
    /\ state[Explorer] \in ExplorerPlaces
    /\ state[Watcher] \in WatcherPlaces
    /\ state[Explorer] = "crashed" <=> state[Watcher] = "crashed"

Busy == {"exploring", "failing", "explored", "handling"}

ExplorerUpdates == state[Explorer] \in Busy => updating

LockExcludes == state[Explorer] = "handling" => Idle(Watcher)

ObserverInv ==
    /\ Tables
    /\ TypeOK
    /\ ExplorerUpdates
    /\ LockExcludes
    /\ NoHalfSnapshotIsUsed

\* The invariant holds at the start.
LEMMA ObserverInit == Init => ObserverInv
  BY DEF Init, ObserverInv, Tables, ExplorerPlaces, WatcherPlaces, TypeOK, ExplorerUpdates,
     Busy, LockExcludes, NoHalfSnapshotIsUsed, Idle, Threads, Explorer, Watcher

\* The two threads are different ones.
LEMMA TwoThreads ==
  /\ Explorer \in Threads /\ Watcher \in Threads /\ Explorer # Watcher
  /\ \A t \in Threads : t = Explorer \/ t = Watcher
  BY DEF Threads, Explorer, Watcher

\* What the users, and the executor, leave alone.
LEMMA QuietKeeps ==
  ASSUME ObserverInv, UNCHANGED <<watches, watched, updating, state, batch, walk>>,
         valid' \in BOOLEAN, valid' => valid
  PROVE  ObserverInv'
  BY DEF ObserverInv, Tables, TypeOK, ExplorerUpdates, LockExcludes, NoHalfSnapshotIsUsed, Idle

\* The users touch nothing of it.
LEMMA UsersKeep ==
  ASSUME ObserverInv, Users
  PROVE  ObserverInv'
  <1>1. UNCHANGED <<watches, watched, updating, state, batch, walk, valid>>
    BY DEF Users, CreateItem, EditFile, MoveItem, ReplaceFile, DeleteItem, TakeOut, BringIn,
       Changed, watchVars, threadVars
  <1>2. QED
    BY <1>1, QuietKeeps DEF ObserverInv, TypeOK

(***************************************************************************)
(* The changes and the explorations of a thread.                           *)
(***************************************************************************)
\* A step of a thread with a change or a folder in hand, which keeps the rest of it or
\* drops it: no other thread is touched, and the snapshot gets valid by no such step.
InHand(t) ==
    /\ ~Idle(t) /\ state[t] # "crashed"
    /\ \/ state' = state
       \/ t = Explorer /\ walk'[t] = <<>> /\ state[t] = "exploring"
          /\ state' = [state EXCEPT ![t] = "failing"]
    /\ batch' = [batch EXCEPT ![t] = batch'[t]]
    /\ walk' = [walk EXCEPT ![t] = walk'[t]]
    /\ batch'[t] # <<>> => batch[t] # <<>>
    /\ walk'[t] # <<>> => walk[t] # <<>> \/ state[t] = "handling"
    /\ valid' \in BOOLEAN /\ (valid' => valid)
    /\ updating' \in BOOLEAN /\ (updating => updating')
    /\ UNCHANGED <<watches, watched>>

LEMMA InHandKeeps ==
  ASSUME ObserverInv, NEW t \in Threads, InHand(t)
  PROVE  ObserverInv'
  <1>1. t = Explorer \/ t = Watcher
    BY TwoThreads
  <1>2. Tables'
    BY TwoThreads DEF ObserverInv, Tables, InHand, ExplorerPlaces
  <1>3. \A u \in Threads \ {t} : batch'[u] = batch[u] /\ walk'[u] = walk[u] /\ state'[u] = state[u]
    BY DEF ObserverInv, Tables, InHand
  <1>4. TypeOK'
    <2>1. valid' \in BOOLEAN /\ updating' \in BOOLEAN /\ watches' \subseteq DOMAIN watched'
      BY DEF ObserverInv, TypeOK, InHand
    <2>2. batch[t] # <<>> => state[t] = "handling" /\ state' = state
      BY DEF ObserverInv, TypeOK, InHand
    <2>3. /\ batch'[t] # <<>> => state'[t] \in {"handling", "crashed"}
          /\ walk'[t] # <<>> => state'[t] \in {"handling", "exploring", "crashed"}
      BY <2>2 DEF ObserverInv, TypeOK, InHand
    <2>4. \A u \in Threads :
            /\ batch'[u] # <<>> => state'[u] \in {"handling", "crashed"}
            /\ walk'[u] # <<>> => state'[u] \in {"handling", "exploring", "crashed"}
      BY <1>3, <2>3 DEF ObserverInv, TypeOK
    <2>5. batch'[Explorer] = <<>> \/ batch'[Watcher] = <<>>
      BY <1>1, <1>3, TwoThreads DEF ObserverInv, TypeOK, InHand
    <2>6. QED
      BY <2>1, <2>4, <2>5 DEF TypeOK
  <1>5. ExplorerUpdates'
    <2>1. state'[Explorer] \in Busy => state[Explorer] \in Busy
      BY <1>1, <1>3, TwoThreads DEF InHand, Busy
    <2>2. QED
      BY <2>1 DEF ObserverInv, ExplorerUpdates, InHand
  <1>6. LockExcludes'
    <2>1. state'[Explorer] = "handling" => state[Explorer] = "handling" /\ t # Watcher
      BY <1>1, <1>2, <1>3, TwoThreads DEF ObserverInv, Tables, LockExcludes, InHand
    <2>2. QED
      BY <1>3, <2>1, TwoThreads DEF ObserverInv, LockExcludes, Idle
  <1>7. NoHalfSnapshotIsUsed'
    BY TwoThreads DEF ObserverInv, NoHalfSnapshotIsUsed, InHand, TypeOK
  <1>8. QED
    BY <1>2, <1>4, <1>5, <1>6, <1>7 DEF ObserverInv

\* Every step of a thread that has something in hand is such a step.
LEMMA ThreadStepInHand ==
  ASSUME ObserverInv, NEW t \in Threads, ThreadStep(t)
  PROVE  InHand(t)
  <1>1. /\ state = [u \in Threads |-> state[u]] /\ batch = [u \in Threads |-> batch[u]]
        /\ walk = [u \in Threads |-> walk[u]]
        /\ valid \in BOOLEAN /\ updating \in BOOLEAN
        /\ batch[t] # <<>> => state[t] \in {"handling", "crashed"}
        /\ walk[t] # <<>> => state[t] \in {"handling", "exploring", "crashed"}
    BY DEF ObserverInv, Tables, TypeOK
  <1>2. ~Idle(t) /\ Alive
    BY DEF ThreadStep, HandleChange, ChangeFails, OpenFolder, ExploreFails, ExploreEntry,
       CloseFolder, Handling, Exploring, Idle
  <1>3. state[t] # "crashed"
    BY <1>2, TwoThreads DEF ObserverInv, Tables, Alive
  <1>4. UNCHANGED <<watches, watched>>
    BY DEF ThreadStep, HandleChange, ChangeFails, OpenFolder, ExploreFails, ExploreEntry,
       CloseFolder, watchVars
  \* What ends the work of a thread, and what goes on with it.
  <1>5. ASSUME NEW s, DropTheRest(t, s)
        PROVE  /\ batch' = [batch EXCEPT ![t] = batch'[t]] /\ batch'[t] = <<>>
               /\ walk' = [walk EXCEPT ![t] = walk'[t]] /\ walk'[t] = <<>>
               /\ ~valid' /\ valid' \in BOOLEAN
    BY <1>1, <1>5 DEF DropTheRest, Invalidated
  <1>6. ASSUME NEW s, Kept(t, s), batch[t] # <<>>
        PROVE  /\ batch' = [batch EXCEPT ![t] = batch'[t]]
               /\ walk' = [walk EXCEPT ![t] = walk'[t]] /\ walk'[t] = walk[t]
               /\ UNCHANGED valid
    BY <1>1, <1>6 DEF Kept
  <1>7. ASSUME NEW s, NEW path, KeptAndExplored(t, s, path), batch[t] # <<>>
        PROVE  /\ batch' = [batch EXCEPT ![t] = batch'[t]]
               /\ walk' = [walk EXCEPT ![t] = walk'[t]]
               /\ UNCHANGED valid
    BY <1>1, <1>7 DEF KeptAndExplored
  <1>8. CASE HandleChange(t)
    <2>1. batch[t] # <<>> /\ state[t] = "handling" /\ UNCHANGED state /\ updating' = TRUE
      BY <1>1, <1>3, <1>8 DEF HandleChange, Handling
    <2>2. \/ \E s : Kept(t, s) \/ DropTheRest(t, s)
          \/ \E s, path : KeptAndExplored(t, s, path)
      BY <1>8 DEF HandleChange
    <2>3. QED
      BY <1>1, <1>2, <1>3, <1>4, <1>5, <1>6, <1>7, <2>1, <2>2 DEF InHand
  <1>9. CASE ChangeFails(t)
    <2>1. UNCHANGED state /\ updating' = TRUE /\ DropTheRest(t, snap)
      BY <1>9 DEF ChangeFails
    <2>2. QED
      BY <1>2, <1>3, <1>4, <1>5, <2>1 DEF InHand
  <1>10. ASSUME ExplorationFails(t), UNCHANGED updating PROVE InHand(t)
    <2>1. CASE state[t] = "exploring"
      <3>1. t = Explorer
        BY <2>1, TwoThreads DEF ObserverInv, Tables, WatcherPlaces
      <3>2. /\ walk' = [walk EXCEPT ![t] = <<>>] /\ state' = [state EXCEPT ![t] = "failing"]
            /\ UNCHANGED <<valid, batch>>
        BY <1>10, <2>1 DEF ExplorationFails
      <3>3. walk'[t] = <<>> /\ walk' = [walk EXCEPT ![t] = walk'[t]]
            /\ batch' = [batch EXCEPT ![t] = batch'[t]]
        BY <1>1, <3>2
      <3>4. QED
        BY <1>1, <1>2, <1>3, <1>4, <1>10, <2>1, <3>1, <3>2, <3>3 DEF InHand
    <2>2. CASE state[t] # "exploring"
      <3>1. DropTheRest(t, snap) /\ UNCHANGED state
        BY <1>10, <2>2 DEF ExplorationFails
      <3>2. QED
        BY <1>1, <1>2, <1>3, <1>4, <1>5, <1>10, <3>1 DEF InHand
    <2>3. QED
      BY <2>1, <2>2
  <1>11. ASSUME walk[t] # <<>>, UNCHANGED <<state, batch, valid, updating>>,
                NEW rest, walk' = [walk EXCEPT ![t] = rest]
         PROVE  InHand(t)
    <2>1. walk' = [walk EXCEPT ![t] = walk'[t]] /\ batch' = [batch EXCEPT ![t] = batch'[t]]
      BY <1>1, <1>11
    <2>2. QED
      BY <1>1, <1>2, <1>3, <1>4, <1>11, <2>1 DEF InHand
  <1>12. CASE OpenFolder(t)
    <2>1. walk[t] # <<>> /\ UNCHANGED updating
      BY <1>12 DEF OpenFolder, Exploring
    <2>2. \/ ExplorationFails(t)
          \/ /\ \E rest : walk' = [walk EXCEPT ![t] = rest]
             /\ UNCHANGED <<state, batch, valid>>
      BY <1>12 DEF OpenFolder
    <2>3. QED
      BY <1>10, <1>11, <2>1, <2>2
  <1>13. CASE ExploreFails(t)
    BY <1>10, <1>13 DEF ExploreFails
  <1>14. CASE ExploreEntry(t)
    <2>1. walk[t] # <<>> /\ UNCHANGED <<state, batch, valid, updating>>
      BY <1>14 DEF ExploreEntry, Exploring
    <2>2. \E rest : walk' = [walk EXCEPT ![t] = rest]
      BY <1>14 DEF ExploreEntry
    <2>3. QED
      BY <1>11, <2>1, <2>2
  <1>15. CASE CloseFolder(t)
    <2>1. walk[t] # <<>> /\ UNCHANGED <<state, batch, valid, updating>>
      BY <1>15 DEF CloseFolder, Exploring
    <2>2. \E rest : walk' = [walk EXCEPT ![t] = rest]
      BY <1>15 DEF CloseFolder
    <2>3. QED
      BY <1>11, <2>1, <2>2
  <1>16. QED
    BY <1>8, <1>9, <1>12, <1>13, <1>14, <1>15 DEF ThreadStep

(***************************************************************************)
(* The thread of the observer.                                             *)
(***************************************************************************)
\* A thread that is in none of the places where it handles or explores is idle, and so
\* is a watcher that has not the lock.
LEMMA WhoIsIdle ==
  ASSUME ObserverInv
  PROVE  /\ \A t \in Threads : state[t] \notin {"handling", "exploring", "crashed"} => Idle(t)
         /\ ~LockedBy(Watcher) /\ state[Watcher] # "crashed" => Idle(Watcher)
  BY TwoThreads DEF ObserverInv, TypeOK, Tables, WatcherPlaces, LockedBy, Idle

LEMMA ExplorerKeeps ==
  ASSUME ObserverInv, Generate \/ Explored \/ Drain \/ Drained \/ Settle
  PROVE  ObserverInv'
  <1>1. /\ state = [t \in Threads |-> state[t]] /\ batch = [t \in Threads |-> batch[t]]
        /\ walk = [t \in Threads |-> walk[t]]
        /\ valid \in BOOLEAN /\ updating \in BOOLEAN
        /\ state[Explorer] # "crashed" => state[Watcher] # "crashed"
    BY DEF ObserverInv, Tables, TypeOK
  <1>2. UNCHANGED <<watches, watched>>
    BY DEF Generate, Explored, Drain, Drained, Settle, watchVars
  <1>3. CASE Generate
    <2>1. /\ state[Explorer] = "loop" /\ ~valid /\ UNCHANGED <<valid, batch>> /\ updating' = TRUE
          /\ state' = [state EXCEPT ![Explorer] = "exploring"]
          /\ \E rest : walk' = [walk EXCEPT ![Explorer] = rest]
      BY <1>3 DEF Generate
    <2>2. QED
      BY <1>1, <1>2, <2>1, TwoThreads DEF ObserverInv, Tables, ExplorerPlaces, TypeOK,
         ExplorerUpdates, LockExcludes, NoHalfSnapshotIsUsed, Idle
  <1>4. CASE Explored
    <2>1. /\ state[Explorer] = "exploring" /\ valid' = TRUE /\ UNCHANGED <<updating, batch, walk>>
          /\ walk[Explorer] = <<>>
          /\ state' = [state EXCEPT ![Explorer] = "explored"]
      BY <1>4 DEF Explored
    <2>2. updating
      BY <2>1 DEF ObserverInv, ExplorerUpdates, Busy
    <2>3. QED
      BY <1>1, <1>2, <2>1, <2>2, TwoThreads DEF ObserverInv, Tables, ExplorerPlaces, TypeOK,
         ExplorerUpdates, LockExcludes, NoHalfSnapshotIsUsed, Idle
  <1>5. CASE Drain
    <2>1. /\ state[Explorer] \in {"explored", "failing"} /\ ~LockedBy(Watcher)
          /\ UNCHANGED <<valid, walk>>
      BY <1>5 DEF Drain
    <2>2. Idle(Explorer) /\ Idle(Watcher) /\ updating
      BY <1>1, <2>1, WhoIsIdle, TwoThreads DEF ObserverInv, ExplorerUpdates, Busy
    <2>3. CASE valid /\ pending # <<>>
      <3>1. /\ batch' = [batch EXCEPT ![Explorer] = pending] /\ UNCHANGED updating
            /\ state' = [state EXCEPT ![Explorer] = "handling"]
        BY <1>5, <2>3 DEF Drain
      <3>2. QED
        BY <1>1, <1>2, <2>1, <2>2, <3>1, TwoThreads DEF ObserverInv, Tables, ExplorerPlaces,
           TypeOK, ExplorerUpdates, LockExcludes, NoHalfSnapshotIsUsed, Idle
    <2>4. CASE ~(valid /\ pending # <<>>)
      <3>1. /\ UNCHANGED batch /\ updating' = FALSE
            /\ \E place \in {"failed", "loop"} : state' = [state EXCEPT ![Explorer] = place]
        BY <1>5, <2>4 DEF Drain
      <3>2. QED
        BY <1>1, <1>2, <2>1, <2>2, <3>1, TwoThreads DEF ObserverInv, Tables, ExplorerPlaces,
           TypeOK, ExplorerUpdates, Busy, LockExcludes, NoHalfSnapshotIsUsed, Idle
    <2>5. QED
      BY <2>3, <2>4
  <1>6. CASE Drained
    <2>1. /\ state[Explorer] = "handling" /\ Idle(Explorer) /\ updating' = FALSE
          /\ state' = [state EXCEPT ![Explorer] = "loop"] /\ UNCHANGED <<valid, batch, walk>>
      BY <1>6 DEF Drained
    <2>2. Idle(Watcher)
      BY <2>1 DEF ObserverInv, LockExcludes
    <2>3. QED
      BY <1>1, <1>2, <2>1, <2>2, TwoThreads DEF ObserverInv, Tables, ExplorerPlaces,
         TypeOK, ExplorerUpdates, Busy, LockExcludes, NoHalfSnapshotIsUsed, Idle
  <1>7. CASE Settle
    <2>1. /\ state[Explorer] = "loop" /\ ~LockedBy(Watcher) /\ updating' = FALSE
          /\ UNCHANGED <<valid, batch, walk, state>>
      BY <1>7 DEF Settle, threadVars
    <2>2. Idle(Explorer) /\ Idle(Watcher)
      BY <1>1, <2>1, WhoIsIdle, TwoThreads
    <2>3. QED
      BY <1>1, <1>2, <2>1, <2>2, TwoThreads DEF ObserverInv, Tables,
         TypeOK, ExplorerUpdates, Busy, LockExcludes, NoHalfSnapshotIsUsed, Idle
  <1>8. QED
    BY <1>3, <1>4, <1>5, <1>6, <1>7

(***************************************************************************)
(* The thread of the folder watcher, and the failures.                     *)
(***************************************************************************)
\* Every folder inotify is asked to watch has its path noted.
LEMMA RegisterNotes ==
  ASSUME watches \subseteq DOMAIN watched, NEW i, NEW path, Register(i, path)
  PROVE  watches' \subseteq DOMAIN watched'
  <1>1. CASE UNCHANGED watchVars
    BY <1>1 DEF watchVars
  <1>2. ASSUME NEW more, watches' = watches \cup {i} \cup more,
               DOMAIN watched' = DOMAIN watched \cup {i} \cup more
        PROVE  watches' \subseteq DOMAIN watched'
    BY <1>2
  <1>3. QED
    BY <1>1, <1>2 DEF Register

\* An idle watcher goes back to its reading, or the program crashes.
LEMMA RegisteredKeeps ==
  ASSUME ObserverInv, NEW i, NEW path, Registered(i, path), Idle(Watcher),
         state[Watcher] # "crashed", UNCHANGED <<valid, updating, batch, walk>>
  PROVE  ObserverInv'
  <1>1. watches' \subseteq DOMAIN watched'
    BY RegisterNotes DEF ObserverInv, TypeOK, Registered, watchVars
  <1>2. CASE state' = [state EXCEPT ![Watcher] = "reading"]
    BY <1>1, <1>2, TwoThreads DEF ObserverInv, Tables, WatcherPlaces, ExplorerPlaces, TypeOK,
       ExplorerUpdates, LockExcludes, NoHalfSnapshotIsUsed, Idle
  <1>3. CASE state' = [state EXCEPT ![Watcher] = "crashed", ![Explorer] = "crashed"]
    BY <1>1, <1>3, TwoThreads DEF ObserverInv, Tables, WatcherPlaces, ExplorerPlaces, TypeOK,
       ExplorerUpdates, Busy, LockExcludes, NoHalfSnapshotIsUsed, Idle
  <1>4. QED
    BY <1>2, <1>3 DEF Registered

LEMMA WatcherKeeps ==
  ASSUME ObserverInv, StartWatching \/ Receive \/ Handled
  PROVE  ObserverInv'
  <1>1. /\ state = [t \in Threads |-> state[t]] /\ batch = [t \in Threads |-> batch[t]]
        /\ walk = [t \in Threads |-> walk[t]]
        /\ valid \in BOOLEAN /\ updating \in BOOLEAN
    BY DEF ObserverInv, Tables, TypeOK
  <1>2. CASE StartWatching
    <2>1. state[Watcher] = "off" /\ Registered(Root, <<>>) /\ UNCHANGED <<valid, updating, batch, walk>>
      BY <1>2 DEF StartWatching
    <2>2. Idle(Watcher)
      BY <2>1, WhoIsIdle, TwoThreads
    <2>3. QED
      BY <2>1, <2>2, RegisteredKeeps
  <1>3. CASE Handled
    <2>1. /\ state[Watcher] = "handling" /\ Idle(Watcher) /\ UNCHANGED <<valid, updating, batch, walk>>
          /\ \/ Registered(OnDisk(last.path), last.path)
             \/ UNCHANGED watchVars /\ state' = [state EXCEPT ![Watcher] = "reading"]
      BY <1>3 DEF Handled
    <2>2. CASE Registered(OnDisk(last.path), last.path)
      BY <2>1, <2>2, RegisteredKeeps
    <2>3. CASE UNCHANGED watchVars /\ state' = [state EXCEPT ![Watcher] = "reading"]
      BY <1>1, <2>1, <2>3, TwoThreads DEF ObserverInv, Tables, WatcherPlaces, TypeOK, watchVars,
         ExplorerUpdates, LockExcludes, NoHalfSnapshotIsUsed, Idle
    <2>4. QED
      BY <2>1, <2>2, <2>3
  <1>4. CASE Receive
    <2>1. /\ state[Watcher] = "reading" /\ ~LockedBy(Explorer)
          /\ state' = [state EXCEPT ![Watcher] = "handling"]
          /\ UNCHANGED <<watches, watched, valid, walk>>
          /\ \/ valid /\ updating' = TRUE /\ \E list : batch' = [batch EXCEPT ![Watcher] = list]
             \/ ~valid /\ UNCHANGED <<batch, updating>>
      BY <1>4 DEF Receive, watchVars
    <2>2. state[Explorer] # "handling" /\ state[Explorer] # "crashed"
      BY <2>1, TwoThreads DEF LockedBy, ObserverInv, Tables
    <2>3. batch[Explorer] = <<>> /\ Idle(Watcher)
      BY <2>1, <2>2, WhoIsIdle, TwoThreads DEF ObserverInv, TypeOK
    <2>4. /\ state'[Watcher] = "handling" /\ state'[Explorer] = state[Explorer]
          /\ batch'[Explorer] = batch[Explorer]
      BY <1>1, <2>1, TwoThreads
    <2>5. Tables'
      BY <1>1, <2>1, <2>2, <2>4, TwoThreads DEF ObserverInv, Tables, WatcherPlaces
    <2>6. TypeOK'
      BY <1>1, <2>1, <2>3, <2>4, TwoThreads DEF ObserverInv, TypeOK, Idle
    <2>7. ExplorerUpdates'
      BY <1>1, <2>1, <2>4 DEF ObserverInv, ExplorerUpdates
    <2>8. LockExcludes' /\ NoHalfSnapshotIsUsed'
      BY <1>1, <2>1, <2>2, <2>4 DEF ObserverInv, LockExcludes, NoHalfSnapshotIsUsed
    <2>9. QED
      BY <2>5, <2>6, <2>7, <2>8 DEF ObserverInv
  <1>5. QED
    BY <1>2, <1>3, <1>4

\* The executor invalidates the snapshot; a failed observer is started again.
LEMMA FailuresKeep ==
  ASSUME ObserverInv, ExecutorInvalidates \/ Restart
  PROVE  ObserverInv'
  <1>1. CASE ExecutorInvalidates
    <2>1. ~valid' /\ valid' \in BOOLEAN /\ UNCHANGED <<watches, watched, updating, state, batch, walk>>
      BY <1>1 DEF ExecutorInvalidates, Invalidated, watchVars, threadVars
    <2>2. QED
      BY <2>1, QuietKeeps
  <1>2. CASE Restart
    <2>1. /\ state[Explorer] = "failed" /\ state[Watcher] \in {"off", "reading"}
          /\ state' = [state EXCEPT ![Explorer] = "loop", ![Watcher] = "off"]
          /\ watches' = {} /\ UNCHANGED <<watched, valid, updating, batch, walk>>
      BY <1>2 DEF Restart
    <2>2. Idle(Explorer) /\ Idle(Watcher)
      BY <2>1, WhoIsIdle, TwoThreads
    <2>3. QED
      BY <2>1, <2>2, TwoThreads DEF ObserverInv, Tables, ExplorerPlaces, WatcherPlaces, TypeOK,
         ExplorerUpdates, Busy, LockExcludes, NoHalfSnapshotIsUsed, Idle
  <1>3. QED
    BY <1>1, <1>2

\* Every step keeps the invariant.
LEMMA ObserverNext == ObserverInv /\ [Next]_vars => ObserverInv'
  <1> SUFFICES ASSUME ObserverInv, [Next]_vars PROVE ObserverInv'
    OBVIOUS
  <1>1. ASSUME UNCHANGED vars PROVE ObserverInv'
    <2>1. UNCHANGED <<watches, watched, updating, state, batch, walk, valid>>
      BY <1>1 DEF vars, watchVars, threadVars
    <2>2. QED
      BY <2>1, QuietKeeps DEF ObserverInv, TypeOK
  <1>2. ASSUME NEW t \in Threads, ThreadStep(t) PROVE ObserverInv'
    BY <1>2, ThreadStepInHand, InHandKeeps
  <1>3. QED
    BY <1>1, <1>2, UsersKeep, ExplorerKeeps, WatcherKeeps, FailuresKeep, TwoThreads
       DEF Next, ExplorerStep, WatcherStep, Rest

\* The invariant always holds.
LEMMA ObserverInvariant == Spec => []ObserverInv
  BY ObserverInit, ObserverNext, PTL DEF Spec

\* TypeCorrect: the changes of one thread are handled while the other handles none,
\* and every folder that is watched has its path noted, whatever happens to the disk.
THEOREM TypeCorrect == Spec => []TypeOK
  <1>1. ObserverInv => TypeOK
    BY DEF ObserverInv
  <1>2. QED
    BY <1>1, ObserverInvariant, PTL

\* WholeSnapshotsOnly: when the synchronization loop may start a cycle, no thread is in
\* the middle of a change or of a folder, whatever failed, was invalidated or started
\* again before.
THEOREM WholeSnapshotsOnly == Spec => []NoHalfSnapshotIsUsed
  <1>1. ObserverInv => NoHalfSnapshotIsUsed
    BY DEF ObserverInv
  <1>2. QED
    BY <1>1, ObserverInvariant, PTL
=============================================================================
