------------------------------ MODULE SyncPal ------------------------------
(***************************************************************************)
(* The sync loop of SyncPalWorker (syncpal/syncpalworker.cpp), the step    *)
(* workers it starts, stops, pauses and resumes, the two file system       *)
(* observers that keep the snapshots, and the SyncPal calls of the         *)
(* application thread (start, pause, unpause, stop).                       *)
(*                                                                         *)
(* Every worker has a thread of its own. A worker shares with the others   *)
(* only its flags (module WorkerFlags), the snapshots with their updated   *)
(* flag, the operation sets, the conflict queue and the operation list,    *)
(* none of which is protected as a whole. What is abstracted is the data:  *)
(* whether a snapshot holds something no computation has read, whether     *)
(* there are operations, conflicts, operations to execute.                 *)
(***************************************************************************)
EXTENDS WorkerFlags, Naturals, FiniteSets

CONSTANTS
    FlakySides,     \* sides whose observer sees changes and may fail
    WorkerErrors,   \* exit codes other than Ok the step workers may end with
    MaxFaults,      \* bound on pauses asked by the application and on observer failures
    MaxStarts,      \* bound on the starts of the SyncPal
    SlowToEnd       \* workers whose isRunning is seen cleared before their exit code is written

Sides == {"local", "remote"}
Steps == {"Idle", "UpdateDetection1", "UpdateDetection2", "Reconciliation1",
          "Reconciliation2", "Reconciliation3", "Reconciliation4",
          "Propagation1", "Propagation2", "Done"}
Workers == {"compute", "localTree", "remoteTree", "platform", "finder",
            "resolver", "generator", "sorter", "executor"}
\* DataError stands for ExitCodeDataError, BackError and InconsistencyError,
\* DbError also for a fatal SystemError, DiskFull for a SystemError whose
\* cause is NotEnoughDiskSpace or FileAccessError. InvalidToken stands for the
\* codes the loop has no branch for.
Errors == {"NetworkError", "DataError", "DbError", "DiskFull", "InvalidToken"}
ExitCodes == Errors \cup {"Ok", "Unknown"}

ASSUME SyncPalAssumption ==
    /\ FlakySides \subseteq Sides
    /\ WorkerErrors \subseteq Errors
    /\ MaxFaults \in Nat /\ MaxStarts \in Nat /\ SlowToEnd \subseteq Workers

StepWorkers ==
    [s \in Steps |->
       CASE s = "UpdateDetection1" -> {"compute"}
         [] s = "UpdateDetection2" -> {"localTree", "remoteTree"}
         [] s = "Reconciliation1" -> {"platform"}
         [] s = "Reconciliation2" -> {"finder"}
         [] s = "Reconciliation3" -> {"resolver"}
         [] s = "Reconciliation4" -> {"generator"}
         [] s = "Propagation1" -> {"sorter"}
         [] s = "Propagation2" -> {"executor"}
         [] OTHER -> {}]

\* The exit codes the execute method of each worker may pass to setDone.
CodesOf ==
    [w \in Workers |-> {"Ok"} \cup (WorkerErrors \cap
       CASE w = "compute" -> {"DataError", "DbError", "DiskFull"}
         [] w \in {"localTree", "remoteTree"} -> {"DataError", "DbError"}
         [] w = "resolver" -> {"DataError", "DbError"}
         [] w = "generator" -> {"DataError", "DiskFull"}
         [] w = "executor" -> Errors
         [] OTHER -> {})]

\* The resolver has no pause loop; only these test the unpause request in it.
Pausable == Workers \ {"resolver"}
HonoursUnpause == {"compute", "generator", "executor"}

VARIABLES
    main,           \* flags of the SyncPalWorker
    pc,             \* where its thread is
    step,           \* _step
    isStepInProgress,
    worker,         \* flags of each step worker
    thread,         \* what the thread of each step worker does
    exitCode,       \* _exitCode of each step worker
    fso,            \* what the thread of each observer does
    isFSOInProgress,
    snapshot,       \* state of the snapshot of each side
    computed,       \* snapshots the running computation has read
    opsUpdated,     \* updated flag of the operation sets
    mismatch,       \* the computation has found a corrupted file
    conflicts,      \* the conflict queue is not empty
    syncOps,        \* the list of operations to propagate is not empty
    restart,        \* _restart
    debt,           \* operations were computed that were neither propagated nor lost by a network error
    api,            \* what the application thread waits for
    faults, starts  \* for the bounds

mainVars == <<main, pc, step, isStepInProgress, isFSOInProgress>>
workVars == <<worker, thread, exitCode, computed>>
dataVars == <<opsUpdated, mismatch, conflicts, syncOps, debt>>
apiVars == <<api, faults, starts>>
vars == <<mainVars, workVars, dataVars, apiVars, fso, snapshot, restart>>

Snapshots == [valid : BOOLEAN, updating : BOOLEAN, updated : BOOLEAN, unread : BOOLEAN]

TypeOK ==
    /\ main \in Flags
    /\ pc \in {"off", "fso", "stop", "pause", "pausing", "sleep", "step",
               "waitNetwork", "waitRestart", "waitExit"}
    /\ step \in Steps
    /\ isStepInProgress \in BOOLEAN
    /\ worker \in [Workers -> Flags]
    /\ thread \in [Workers -> {"off", "run", "pausing", "paused"} \cup ExitCodes]
    /\ exitCode \in [Workers -> ExitCodes]
    /\ fso \in [Sides -> {"off", "running", "stopping"}]
    /\ isFSOInProgress \in [Sides -> BOOLEAN]
    /\ snapshot \in [Sides -> Snapshots]
    /\ computed \subseteq Sides
    /\ opsUpdated \in BOOLEAN /\ mismatch \in BOOLEAN /\ conflicts \in BOOLEAN
    /\ syncOps \in BOOLEAN /\ restart \in BOOLEAN /\ debt \in BOOLEAN
    /\ api \in {"free", "stopping"}
    /\ faults \in 0..MaxFaults /\ starts \in 0..MaxStarts

Init ==
    /\ main = FreshWorker /\ pc = "off"
    /\ step = "Idle" /\ isStepInProgress = FALSE
    /\ worker = [w \in Workers |-> FreshWorker]
    /\ thread = [w \in Workers |-> "off"]
    /\ exitCode = [w \in Workers |-> "Unknown"]
    /\ fso = [s \in Sides |-> "off"]
    /\ isFSOInProgress = [s \in Sides |-> FALSE]
    /\ snapshot = [s \in Sides |-> [valid |-> FALSE, updating |-> FALSE,
                                    updated |-> FALSE, unread |-> FALSE]]
    /\ computed = {}
    /\ opsUpdated = FALSE /\ mismatch = FALSE /\ conflicts = FALSE /\ syncOps = FALSE
    /\ restart = FALSE /\ debt = FALSE
    /\ api = "free" /\ faults = 0 /\ starts = 0

(***************************************************************************)
(* The snapshots and the observers that keep them.                         *)
(***************************************************************************)
\* A change of the items: startUpdate is called under the same mutex.
Changed(snap) == [snap EXCEPT !.updated = TRUE, !.unread = TRUE]

InvalidateSnapshot(snap) ==
    IF snap.valid THEN [Changed(snap) EXCEPT !.valid = FALSE] ELSE snap

\* generateInitialSnapshot: init and _updating = true, then the whole content.
ObserverStartsSnapshot(s) ==
    /\ fso[s] = "running" /\ ~snapshot[s].valid
    /\ snapshot' = [snapshot EXCEPT ![s] = [Changed(@) EXCEPT !.updating = TRUE]]
    /\ UNCHANGED <<mainVars, workVars, dataVars, apiVars, fso, restart>>

ObserverEndsSnapshot(s) ==
    /\ fso[s] = "running" /\ ~snapshot[s].valid /\ snapshot[s].updating
    /\ snapshot' = [snapshot EXCEPT ![s] =
                      [Changed(@) EXCEPT !.valid = TRUE, !.updating = FALSE]]
    /\ UNCHANGED <<mainVars, workVars, dataVars, apiVars, fso, restart>>

\* changesDetected, processActions: some items change.
ObserverSeesChange(s) ==
    /\ s \in FlakySides /\ fso[s] = "running" /\ snapshot[s].valid
    /\ snapshot' = [snapshot EXCEPT ![s] = [Changed(@) EXCEPT !.updating = TRUE]]
    /\ UNCHANGED <<mainVars, workVars, dataVars, apiVars, fso, restart>>

\* One second without change (local), the listing is exhausted (remote).
ObserverIsQuiet(s) ==
    /\ fso[s] = "running" /\ snapshot[s].valid /\ snapshot[s].updating
    /\ snapshot' = [snapshot EXCEPT ![s].updating = FALSE]
    /\ UNCHANGED <<mainVars, workVars, dataVars, apiVars, fso, restart>>

ObserverInvalidates(s) ==
    /\ s \in FlakySides /\ fso[s] = "running" /\ snapshot[s].valid
    /\ snapshot' = [snapshot EXCEPT ![s] = InvalidateSnapshot(@)]
    /\ UNCHANGED <<mainVars, workVars, dataVars, apiVars, fso, restart>>

\* The local observer fails only while it builds the snapshot; the remote one
\* may fail, and leave a valid snapshot, while it waits for changes.
ObserverFails(s) ==
    /\ s \in FlakySides /\ fso[s] # "off" /\ faults < MaxFaults
    /\ s = "local" => ~snapshot[s].valid
    /\ fso' = [fso EXCEPT ![s] = "off"]
    /\ snapshot' = [snapshot EXCEPT ![s].updating = @ /\ snapshot[s].valid]
    /\ faults' = faults + 1
    /\ UNCHANGED <<mainVars, workVars, dataVars, api, starts, restart>>

ObserverSeesStop(s) ==
    /\ fso[s] = "stopping"
    /\ fso' = [fso EXCEPT ![s] = "off"]
    /\ snapshot' = [snapshot EXCEPT ![s] = InvalidateSnapshot(@)]
    /\ UNCHANGED <<mainVars, workVars, dataVars, apiVars, restart>>

Observer(s) ==
    \/ ObserverStartsSnapshot(s)
    \/ ObserverEndsSnapshot(s)
    \/ ObserverSeesChange(s)
    \/ ObserverIsQuiet(s)
    \/ ObserverInvalidates(s)
    \/ ObserverFails(s)
    \/ ObserverSeesStop(s)

(***************************************************************************)
(* The threads of the step workers.                                        *)
(***************************************************************************)
\* A pause loop is entered with a test of the flags, then setPauseDone.
WorkerTestsPause(w) ==
    /\ thread[w] = "run" /\ w \in Pausable /\ MustPause(worker[w])
    /\ thread' = [thread EXCEPT ![w] = IF worker[w].isPaused THEN "paused" ELSE "pausing"]
    /\ UNCHANGED <<mainVars, worker, exitCode, computed, dataVars, apiVars, fso, snapshot, restart>>

WorkerPauses(w) ==
    /\ thread[w] = "pausing"
    /\ thread' = [thread EXCEPT ![w] = "paused"]
    /\ worker' = [worker EXCEPT ![w] = SetPauseDone(@)]
    /\ UNCHANGED <<mainVars, exitCode, computed, dataVars, apiVars, fso, snapshot, restart>>

WorkerUnpauses(w) ==
    /\ thread[w] = "paused" /\ w \in HonoursUnpause /\ worker[w].unpauseAsked
    /\ thread' = [thread EXCEPT ![w] = "run"]
    /\ worker' = [worker EXCEPT ![w] = SetUnpauseDone(@)]
    /\ UNCHANGED <<mainVars, exitCode, computed, dataVars, apiVars, fso, snapshot, restart>>

\* The flags have been cleared by stop.
WorkerLeavesPause(w) ==
    /\ thread[w] = "paused" /\ ~worker[w].isPaused
    /\ thread' = [thread EXCEPT ![w] = "run"]
    /\ UNCHANGED <<mainVars, worker, exitCode, computed, dataVars, apiVars, fso, snapshot, restart>>

\* exploreDbTree and exploreSnapshotTree read the items of one side.
ComputeReads(s) ==
    /\ thread["compute"] = "run" /\ s \notin computed
    /\ computed' = computed \cup {s}
    /\ snapshot' = [snapshot EXCEPT ![s].unread = FALSE]
    /\ UNCHANGED <<mainVars, worker, thread, exitCode, dataVars, apiVars, fso, restart>>

\* The end of execute: setDone, in one step or in two.
Ends(w, code) ==
    /\ thread[w] = "run" /\ code \in CodesOf[w]
    /\ worker' = [worker EXCEPT ![w] = SetDone(@)]
    /\ IF w \in SlowToEnd
       THEN thread' = [thread EXCEPT ![w] = code] /\ UNCHANGED exitCode
       ELSE thread' = [thread EXCEPT ![w] = "off"] /\ exitCode' = [exitCode EXCEPT ![w] = code]
    /\ UNCHANGED <<mainVars, computed, apiVars, fso>>

WorkerWritesCode(w) ==
    /\ thread[w] \in ExitCodes
    /\ thread' = [thread EXCEPT ![w] = "off"]
    /\ exitCode' = [exitCode EXCEPT ![w] = thread[w]]
    /\ UNCHANGED <<mainVars, worker, computed, dataVars, apiVars, fso, snapshot, restart>>

\* Operations are kept only if both sides were explored without error or stop.
ComputeEnds(code) ==
    LET kept == code = "Ok" /\ computed = Sides /\ ~worker["compute"].stopAsked
    IN  /\ Ends("compute", code)
        /\ code = "Ok" => kept \/ worker["compute"].stopAsked
        /\ \E found \in BOOLEAN :
             /\ opsUpdated' = (opsUpdated \/ found)
             /\ debt' = IF kept THEN found ELSE debt
        /\ mismatch' \in IF kept THEN BOOLEAN ELSE {FALSE}
        /\ snapshot' = IF kept THEN snapshot
                       ELSE [s \in Sides |-> [snapshot[s] EXCEPT !.unread = TRUE]]
        /\ UNCHANGED <<conflicts, syncOps, restart>>

TreeEnds(w, code) ==
    /\ w \in {"localTree", "remoteTree", "platform"}
    /\ Ends(w, code)
    /\ UNCHANGED <<dataVars, snapshot, restart>>

FinderEnds ==
    /\ Ends("finder", "Ok")
    /\ conflicts' \in {conflicts, TRUE}
    /\ UNCHANGED <<opsUpdated, mismatch, syncOps, debt, snapshot, restart>>

\* The queue is emptied unless generateOperations fails; the restart is asked
\* in every case.
ResolverEnds(code) ==
    /\ Ends("resolver", code)
    /\ conflicts' = (code # "Ok")
    /\ syncOps' \in IF code = "Ok" THEN {TRUE} ELSE {syncOps, TRUE}
    /\ restart' = TRUE
    /\ UNCHANGED <<opsUpdated, mismatch, debt, snapshot>>

\* No operation is generated for what both sides already agree on.
GeneratorEnds(code) ==
    /\ Ends("generator", code)
    /\ syncOps' \in BOOLEAN
    /\ debt' = IF code = "Ok" /\ ~worker["generator"].stopAsked THEN debt /\ syncOps' ELSE debt
    /\ restart' \in {restart, TRUE}
    /\ UNCHANGED <<opsUpdated, mismatch, conflicts, snapshot>>

\* Breaking a cycle of operations asks for a restart.
SorterEnds ==
    /\ Ends("sorter", "Ok")
    /\ restart' \in {restart, TRUE}
    /\ UNCHANGED <<dataVars, snapshot>>

\* Whatever the outcome the list is cleared, the remote observer is asked for
\* an update and the local snapshot may be invalidated. What a network error makes
\* the cycle lose is written off: README, section 10.
ExecutorEnds(code) ==
    /\ Ends("executor", code)
    /\ syncOps' = FALSE
    /\ restart' \in {restart, TRUE}
    /\ debt' = IF code = "Ok" /\ ~worker["executor"].stopAsked
               THEN debt /\ (restart' \/ ~syncOps)
               ELSE debt /\ code # "NetworkError"
    /\ \E invalidate \in BOOLEAN :
         snapshot' = [snapshot EXCEPT !["remote"].updating = TRUE,
                                      !["local"] = IF invalidate THEN InvalidateSnapshot(@) ELSE @]
    /\ UNCHANGED <<opsUpdated, mismatch, conflicts>>

\* The quota of the drive is exceeded: the executor pauses the synchronization.
ExecutorAsksPause ==
    /\ thread["executor"] = "run" /\ faults < MaxFaults
    /\ main' = Pause(main)
    /\ faults' = faults + 1
    /\ UNCHANGED <<pc, step, isStepInProgress, isFSOInProgress, workVars, dataVars,
                   api, starts, fso, snapshot, restart>>

WorkerThread(w) ==
    \/ WorkerTestsPause(w) \/ WorkerPauses(w) \/ WorkerUnpauses(w) \/ WorkerLeavesPause(w)
    \/ WorkerWritesCode(w)
    \/ \E code \in ExitCodes : TreeEnds(w, code)
    \/ /\ w = "compute"
       /\ \/ \E s \in Sides : ComputeReads(s)
          \/ \E code \in ExitCodes : ComputeEnds(code)
    \/ w = "finder" /\ FinderEnds
    \/ w = "resolver" /\ \E code \in ExitCodes : ResolverEnds(code)
    \/ w = "generator" /\ \E code \in ExitCodes : GeneratorEnds(code)
    \/ w = "sorter" /\ SorterEnds
    \/ w = "executor" /\ \E code \in ExitCodes : ExecutorEnds(code)

(***************************************************************************)
(* The thread of the SyncPalWorker, one action per part of its loop.       *)
(***************************************************************************)
\* An observer that has just been found dead pauses the synchronization; the
\* next time round it is started again.
CheckObservers ==
    LET dead == {s \in Sides : fso[s] = "off"}
        failed == {s \in dead : isFSOInProgress[s]}
        fresh == dead \ failed
        paused == IF failed # {} THEN Pause(main) ELSE main
    IN  /\ pc = "fso" /\ pc' = "stop"
        /\ main' = IF fresh # {} THEN Unpause(paused) ELSE paused
        /\ fso' = [s \in Sides |-> IF s \in fresh THEN "running" ELSE fso[s]]
        /\ isFSOInProgress' = [s \in Sides |-> IF s \in dead THEN s \in fresh
                                               ELSE isFSOInProgress[s]]
        /\ UNCHANGED <<step, isStepInProgress, workVars, dataVars, apiVars, snapshot, restart>>

\* The exit codes of a step are not read again once the step is left, except
\* by a main loop that reads the code of an earlier run.
ForgetCodes == exitCode' = [w \in Workers |-> IF w \in SlowToEnd THEN exitCode[w] ELSE "Unknown"]

StopObservers == fso' = [s \in Sides |-> IF fso[s] = "running" THEN "stopping" ELSE fso[s]]
StopStepWorkers ==
    worker' = [w \in Workers |-> IF w \in StepWorkers[step] THEN Stop(worker[w]) ELSE worker[w]]

\* Mutant of TestStop: the observers are not stopped.
TestStopLeavesObservers ==
    /\ pc = "stop"
    /\ IF main.stopAsked THEN pc' = "waitExit" /\ StopStepWorkers
                         ELSE pc' = "pause" /\ UNCHANGED worker
    /\ UNCHANGED <<main, step, isStepInProgress, isFSOInProgress, thread, exitCode,
                   computed, dataVars, apiVars, fso, snapshot, restart>>

TestStop ==
    /\ pc = "stop"
    /\ IF main.stopAsked
       THEN pc' = "waitExit" /\ StopObservers /\ StopStepWorkers
       ELSE pc' = "pause" /\ UNCHANGED <<fso, worker>>
    /\ UNCHANGED <<main, step, isStepInProgress, isFSOInProgress, thread, exitCode,
                   computed, dataVars, apiVars, snapshot, restart>>

TestPause ==
    /\ pc = "pause"
    /\ pc' = IF main.isPaused THEN "sleep" ELSE IF main.pauseAsked THEN "pausing" ELSE "step"
    /\ UNCHANGED <<main, step, isStepInProgress, isFSOInProgress, workVars, dataVars,
                   apiVars, fso, snapshot, restart>>

PauseAllWorkers ==
    /\ pc = "pausing" /\ pc' = "sleep"
    /\ worker' = [w \in Workers |-> IF w \in StepWorkers[step] THEN Pause(worker[w]) ELSE worker[w]]
    /\ main' = SetPauseDone(main)
    /\ UNCHANGED <<step, isStepInProgress, isFSOInProgress, thread, exitCode, computed,
                   dataVars, apiVars, fso, snapshot, restart>>

\* After the sleep the loop tests its condition again: stopAsked is not part of it.
UnpauseAllWorkers ==
    /\ pc = "sleep" /\ pc' = "pause"
    /\ IF main.unpauseAsked
       THEN /\ worker' = [w \in Workers |-> IF w \in StepWorkers[step] THEN Unpause(worker[w])
                                            ELSE worker[w]]
            /\ main' = SetUnpauseDone(main)
       ELSE UNCHANGED <<worker, main>>
    /\ UNCHANGED <<step, isStepInProgress, isFSOInProgress, thread, exitCode, computed,
                   dataVars, apiVars, fso, snapshot, restart>>

\* startRead clears the updated flag of the inputs before the workers start.
StartStep ==
    /\ pc = "step" /\ ~isStepInProgress
    /\ \A w \in StepWorkers[step] : thread[w] = "off"
    /\ pc' = "fso" /\ isStepInProgress' = TRUE
    /\ snapshot' = IF step = "UpdateDetection1"
                   THEN [s \in Sides |-> [snapshot[s] EXCEPT !.updated = FALSE]] ELSE snapshot
    /\ opsUpdated' = (opsUpdated /\ step # "UpdateDetection2")
    /\ worker' = [w \in Workers |-> IF w \in StepWorkers[step] THEN Start(worker[w]) ELSE worker[w]]
    /\ thread' = [w \in Workers |-> IF w \in StepWorkers[step] THEN "run" ELSE thread[w]]
    /\ ForgetCodes
    /\ computed' = IF step = "UpdateDetection1" THEN {} ELSE computed
    /\ UNCHANGED <<main, step, isFSOInProgress, mismatch, conflicts, syncOps, debt,
                   apiVars, fso, restart>>

(***************************************************************************)
(* The end of a step: the main loop reads the exit codes of the workers    *)
(* that are no longer running.                                             *)
(***************************************************************************)
Read(w) == IF worker[w].isRunning THEN "Unknown" ELSE exitCode[w]
Codes == {Read(w) : w \in StepWorkers[step]}

\* The guard of every branch below.
LooksAtStep == pc = "step" /\ isStepInProgress

\* Mutant of StartsCycle: the restart request is not looked at.
StartsCycleOnChange ==
    /\ \A s \in Sides : snapshot[s].valid /\ ~snapshot[s].updating
    /\ \E s \in Sides : snapshot[s].updated

StartsCycle ==
    /\ \A s \in Sides : snapshot[s].valid /\ ~snapshot[s].updating
    /\ restart \/ \E s \in Sides : snapshot[s].updated

NextStep ==
    CASE step = "Idle" -> IF StartsCycle THEN "UpdateDetection1" ELSE "Idle"
      [] step = "UpdateDetection1" -> IF mismatch THEN "Idle"
                                      ELSE IF opsUpdated THEN "UpdateDetection2" ELSE "Done"
      [] step = "UpdateDetection2" -> "Reconciliation1"
      [] step = "Reconciliation1" -> "Reconciliation2"
      [] step = "Reconciliation2" -> IF conflicts THEN "Reconciliation3" ELSE "Reconciliation4"
      [] step \in {"Reconciliation3", "Reconciliation4"} ->
           IF conflicts THEN "Propagation2" ELSE "Propagation1"
      [] step = "Propagation1" -> "Propagation2"
      [] step = "Propagation2" -> "Done"
      [] step = "Done" -> "Idle"

\* Mutant of RestartAfter: the restart is forgotten when the cycle ends.
RestartAfterForgetsAtEnd == NextStep # "Idle" /\ restart

\* initStep forgets the restart when a cycle begins, nextStep asks for one
\* when a corrupted file is found.
RestartAfter ==
    IF NextStep = "UpdateDetection1" THEN FALSE
    ELSE restart \/ (step = "UpdateDetection1" /\ mismatch)

\* Mutant of AdvanceStep: one of the two workers of a step is enough.
AdvanceStepOnOneWorker ==
    /\ LooksAtStep /\ (StepWorkers[step] = {} \/ "Ok" \in Codes)
    /\ pc' = "fso"
    /\ step' = NextStep /\ restart' = RestartAfter
    /\ isStepInProgress' = (NextStep = step)
    /\ ForgetCodes
    /\ UNCHANGED <<main, isFSOInProgress, worker, thread, computed, dataVars, apiVars, fso, snapshot>>

AdvanceStep ==
    /\ LooksAtStep /\ Codes \subseteq {"Ok"}
    /\ pc' = "fso"
    /\ step' = NextStep /\ restart' = RestartAfter
    /\ isStepInProgress' = (NextStep = step)
    /\ ForgetCodes
    /\ UNCHANGED <<main, isFSOInProgress, worker, thread, computed, dataVars, apiVars, fso, snapshot>>

\* Each kind of failure stops the workers of the step, then waits for them.
FailsWith(code) ==
    CASE "NetworkError" \in Codes -> code = "NetworkError"
      [] "DataError" \in Codes -> code = "DataError"
      [] OTHER -> code \in Codes \cap {"DbError", "DiskFull"}

AbortForNetwork ==
    /\ LooksAtStep /\ FailsWith("NetworkError")
    /\ pc' = "waitNetwork" /\ StopStepWorkers
    /\ UNCHANGED <<main, step, isStepInProgress, isFSOInProgress, thread, exitCode, computed,
                   dataVars, apiVars, fso, snapshot, restart>>

AbortAndRestart ==
    /\ LooksAtStep /\ FailsWith("DataError")
    /\ pc' = "waitRestart" /\ StopStepWorkers
    /\ UNCHANGED <<main, step, isStepInProgress, isFSOInProgress, thread, exitCode, computed,
                   dataVars, apiVars, fso, snapshot, restart>>

AbortAndExit ==
    /\ LooksAtStep /\ \E code \in {"DbError", "DiskFull"} : FailsWith(code)
    /\ pc' = "waitExit" /\ StopObservers /\ StopStepWorkers
    /\ UNCHANGED <<main, step, isStepInProgress, isFSOInProgress, thread, exitCode, computed,
                   dataVars, apiVars, snapshot, restart>>

\* A worker still runs, or has ended with a code no branch tests.
StepGoesOn ==
    /\ LooksAtStep /\ ~(Codes \subseteq {"Ok"}) /\ Codes \subseteq {"Ok", "Unknown", "InvalidToken"}
    /\ pc' = "fso"
    /\ UNCHANGED <<main, step, isStepInProgress, isFSOInProgress, workVars, dataVars, apiVars,
                   fso, snapshot, restart>>

\* Mutant of StepWorkersExited: the workers are stopped but not waited for.
StepWorkersStopped == TRUE

\* waitForExit returns at once for a worker that is no longer running.
StepWorkersExited == \A w \in StepWorkers[step] : ~worker[w].isRunning

NetworkAborted ==
    /\ pc = "waitNetwork" /\ StepWorkersExited
    /\ pc' = "fso" /\ isStepInProgress' = FALSE
    /\ main' = Pause(main)
    /\ UNCHANGED <<step, isFSOInProgress, workVars, dataVars, apiVars, fso, snapshot, restart>>

\* Mutants of RestartAborted: the snapshots are kept, the shared objects are not
\* reset, the step is not left.
RestartAbortedKeepsSnapshots ==
    /\ pc = "waitRestart" /\ StepWorkersExited
    /\ pc' = "fso" /\ step' = "Idle"
    /\ conflicts' = FALSE /\ syncOps' = FALSE
    /\ ForgetCodes
    /\ UNCHANGED <<main, isStepInProgress, isFSOInProgress, worker, thread, computed, opsUpdated,
                   mismatch, debt, apiVars, fso, restart, snapshot>>

RestartAbortedKeepsOperations ==
    /\ pc = "waitRestart" /\ StepWorkersExited
    /\ pc' = "fso" /\ step' = "Idle"
    /\ snapshot' = [s \in Sides |->
                      InvalidateSnapshot([snapshot[s] EXCEPT !.updating = @ \/ s = "remote"])]
    /\ ForgetCodes
    /\ UNCHANGED <<main, isStepInProgress, isFSOInProgress, worker, thread, computed, opsUpdated,
                   mismatch, debt, apiVars, fso, restart, conflicts, syncOps>>

RestartAbortedKeepsStep ==
    /\ pc = "waitRestart" /\ StepWorkersExited
    /\ pc' = "fso" /\ step' = step
    /\ snapshot' = [s \in Sides |->
                      InvalidateSnapshot([snapshot[s] EXCEPT !.updating = @ \/ s = "remote"])]
    /\ conflicts' = FALSE /\ syncOps' = FALSE
    /\ ForgetCodes
    /\ UNCHANGED <<main, isStepInProgress, isFSOInProgress, worker, thread, computed, opsUpdated,
                   mismatch, debt, apiVars, fso, restart>>

\* Both snapshots are to be built again, and the step is Idle, in progress.
RestartAborted ==
    /\ pc = "waitRestart" /\ StepWorkersExited
    /\ pc' = "fso" /\ step' = "Idle"
    /\ snapshot' = [s \in Sides |->
                      InvalidateSnapshot([snapshot[s] EXCEPT !.updating = @ \/ s = "remote"])]
    /\ conflicts' = FALSE /\ syncOps' = FALSE
    /\ ForgetCodes
    /\ UNCHANGED <<main, isStepInProgress, isFSOInProgress, worker, thread, computed, opsUpdated,
                   mismatch, debt, apiVars, fso, restart>>

AllWorkersExited == StepWorkersExited /\ \A s \in Sides : fso[s] = "off"

Exit ==
    /\ pc = "waitExit" /\ AllWorkersExited
    /\ pc' = "off" /\ main' = SetDone(main)
    /\ UNCHANGED <<step, isStepInProgress, isFSOInProgress, workVars, dataVars, apiVars,
                   fso, snapshot, restart>>

MainLoop ==
    \/ CheckObservers \/ TestStop \/ TestPause \/ PauseAllWorkers \/ UnpauseAllWorkers
    \/ StartStep \/ AdvanceStep \/ StepGoesOn
    \/ AbortForNetwork \/ AbortAndRestart \/ AbortAndExit
    \/ NetworkAborted \/ RestartAborted \/ Exit

(***************************************************************************)
(* The calls of the application: SyncPal::start, pause, unpause and stop.  *)
(***************************************************************************)
\* The shared objects are reset and every worker is created anew; the
\* snapshots and the restart request belong to the SyncPal and survive.
ApiStart ==
    /\ api = "free" /\ pc = "off" /\ starts < MaxStarts
    /\ \A w \in Workers : thread[w] = "off"
    /\ starts' = starts + 1
    /\ main' = Start(FreshWorker) /\ pc' = "fso"
    /\ step' = "Idle" /\ isStepInProgress' = FALSE
    /\ isFSOInProgress' = [s \in Sides |-> FALSE]
    /\ worker' = [w \in Workers |-> FreshWorker]
    /\ exitCode' = [w \in Workers |-> "Unknown"]
    /\ snapshot' = [s \in Sides |-> [snapshot[s] EXCEPT !.updating = FALSE]]
    /\ mismatch' = FALSE /\ conflicts' = FALSE /\ syncOps' = FALSE
    /\ UNCHANGED <<thread, computed, opsUpdated, debt, fso, api, faults, restart>>

ApiPause ==
    /\ api = "free" /\ main.isRunning /\ faults < MaxFaults
    /\ main' = Pause(main) /\ faults' = faults + 1
    /\ UNCHANGED <<pc, step, isStepInProgress, isFSOInProgress, workVars, dataVars, api, starts,
                   fso, snapshot, restart>>

\* By the user, or by the timer that resumes the paused synchronizations.
ApiUnpause ==
    /\ api = "free" /\ main.isRunning /\ main.isPaused /\ ~main.unpauseAsked
    /\ main' = Unpause(main)
    /\ UNCHANGED <<pc, step, isStepInProgress, isFSOInProgress, workVars, dataVars, apiVars,
                   fso, snapshot, restart>>

ApiStop ==
    /\ api = "free" /\ main.isRunning
    /\ main' = Stop(main) /\ api' = "stopping"
    /\ UNCHANGED <<pc, step, isStepInProgress, isFSOInProgress, workVars, dataVars, faults, starts,
                   fso, snapshot, restart>>

ApiStopReturns ==
    /\ api = "stopping" /\ ~main.isRunning
    /\ api' = "free"
    /\ UNCHANGED <<mainVars, workVars, dataVars, faults, starts, fso, snapshot, restart>>

Next ==
    \/ MainLoop
    \/ \E w \in Workers : WorkerThread(w)
    \/ ExecutorAsksPause
    \/ \E s \in Sides : Observer(s)
    \/ ApiStart \/ ApiPause \/ ApiUnpause \/ ApiStop \/ ApiStopReturns

Spec == Init /\ [][Next]_vars

\* Every thread is scheduled; the observers finish what they do when nothing
\* changes any more; a pause is ended by the timer of the application.
FairSpec ==
    /\ Spec
    /\ WF_vars(MainLoop)
    /\ \A w \in Workers : WF_vars(WorkerThread(w))
    /\ \A s \in Sides : WF_vars(ObserverSeesStop(s)) /\ WF_vars(ObserverIsQuiet(s))
    /\ \A s \in Sides : WF_vars(ObserverStartsSnapshot(s)) /\ WF_vars(ObserverEndsSnapshot(s))
    /\ WF_vars(ApiUnpause) /\ WF_vars(ApiStopReturns)

(***************************************************************************)
(* Safety.                                                                 *)
(***************************************************************************)
\* A thread that only has its exit code left to write no longer touches the data.
Works(w) == thread[w] \in {"run", "pausing", "paused"}

\* Only the workers of the current step work: no two steps ever touch the
\* shared trees and lists at the same time, whatever was stopped, paused or
\* restarted in between. The workers themselves take no lock.
OneStepAtATime == \A w \in Workers : Works(w) => w \in StepWorkers[step]

\* When SyncPal::stop returns, or the loop ends by itself, no worker and no
\* observer works any more: the application may free or create them anew.
AllStoppedOnExit ==
    pc = "off" => /\ \A w \in Workers : ~Works(w)
                  /\ \A s \in Sides : fso[s] = "off"

\* What a snapshot holds and no computation has read is not forgotten: a
\* computation is under way, or something will start a new one. The updated
\* flags are cleared (startRead) before the snapshots are read.
NoChangeLost ==
    (\E s \in Sides : snapshot[s].unread) =>
        \/ step = "UpdateDetection1" \/ restart \/ ~main.isRunning
        \/ \E s \in Sides : snapshot[s].updated \/ ~snapshot[s].valid

\* No operation of an earlier cycle is left in the list when a cycle computes
\* its own: the executor would apply operations that no longer fit the trees.
NoStaleOperations ==
    syncOps => \/ step \in {"Reconciliation3", "Reconciliation4", "Propagation1", "Propagation2"}
               \/ ~main.isRunning

\* A cycle that ends with differences between the two sides left unpropagated
\* leaves a trace that starts another one.
DebtIsRemembered ==
    debt => \/ step \notin {"Idle", "Done"}
            \/ restart \/ ~main.isRunning
            \/ \E s \in Sides : snapshot[s].updated \/ ~snapshot[s].valid

\* How the last run of a worker ended, whether its exit code is written or not.
Outcome(w) == IF thread[w] \in ExitCodes THEN thread[w] ELSE exitCode[w]

\* The loop goes on to the next step of the cycle only when the workers of the
\* step have succeeded: with another outcome the sync restarts, pauses or stops.
FailedStepIsNotPassed ==
    [][step' \notin {step, "Idle"} =>
         \A w \in StepWorkers[step] : Outcome(w) = "Ok"]_vars

(***************************************************************************)
(* Liveness.                                                               *)
(***************************************************************************)
\* Every cycle comes to its end, by success, restart, failure or stop.
EveryCycleEnds == step # "Idle" ~> step = "Idle" \/ pc = "off"

\* A restart asked by a worker in the middle of a cycle, while the flag may be
\* set and cleared by different threads, leads to a new cycle.
RestartIsHonoured == restart /\ main.isRunning ~> step = "UpdateDetection1" \/ pc = "off"

\* SyncPal::stop returns: the loop and every worker it has started end.
StopReturns == api = "stopping" ~> api = "free"
=============================================================================
