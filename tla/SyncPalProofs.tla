--------------------------- MODULE SyncPalProofs ---------------------------
(***************************************************************************)
(* Proofs about SyncPal, for every set of flaky sides, every set of worker *)
(* errors, every bound on faults and starts, and (except for the action    *)
(* property) every set of workers that are slow to write their exit code.  *)
(***************************************************************************)
EXTENDS SyncPal, TLAPS

USE SyncPalAssumption

(***************************************************************************)
(* What is used of the constant tables and of the operators on flags.      *)
(***************************************************************************)
LEMMA FlagsKept ==
  ASSUME NEW f \in Flags
  PROVE  /\ Start(f) \in Flags /\ Start(f).isRunning
         /\ Pause(f) \in Flags /\ Pause(f).isRunning = f.isRunning
         /\ Unpause(f) \in Flags /\ Unpause(f).isRunning = f.isRunning
         /\ Stop(f) \in Flags /\ Stop(f).isRunning = f.isRunning
         /\ SetPauseDone(f) \in Flags /\ SetPauseDone(f).isRunning = f.isRunning
         /\ SetUnpauseDone(f) \in Flags /\ SetUnpauseDone(f).isRunning = f.isRunning
         /\ SetDone(f) \in Flags /\ ~SetDone(f).isRunning
  BY DEF Flags, Start, Pause, Unpause, Stop, SetPauseDone, SetUnpauseDone, SetDone

\* A worker that was just created is not running.
LEMMA FreshFlags == FreshWorker \in Flags /\ ~FreshWorker.isRunning
  BY DEF Flags, FreshWorker

\* Which step has the workers the invariants speak of; Idle has none.
LEMMA StepTable ==
  /\ \A s \in Steps : StepWorkers[s] \subseteq Workers
  /\ StepWorkers["Idle"] = {}
  /\ \A s \in Steps : /\ "resolver" \in StepWorkers[s] => s = "Reconciliation3"
                      /\ "generator" \in StepWorkers[s] => s = "Reconciliation4"
                      /\ "executor" \in StepWorkers[s] <=> s = "Propagation2"
  BY DEF Steps, StepWorkers, Workers

\* nextStep yields a step.
LEMMA NextStepIsAStep ==
  ASSUME step \in Steps PROVE NextStep \in Steps
  BY DEF Steps, NextStep

\* What an observer writes in a snapshot keeps its type.
LEMMA SnapshotsKept ==
  ASSUME NEW f \in Snapshots, NEW b \in BOOLEAN
  PROVE  /\ Changed(f) \in Snapshots
         /\ InvalidateSnapshot(f) \in Snapshots
         /\ [f EXCEPT !.updating = b] \in Snapshots
         /\ [f EXCEPT !.updated = b] \in Snapshots
         /\ [f EXCEPT !.unread = b] \in Snapshots
         /\ [f EXCEPT !.valid = TRUE, !.updating = b] \in Snapshots
  BY DEF Snapshots, Changed, InvalidateSnapshot

\* The codes a worker ends with are exit codes.
LEMMA CodesAreExitCodes == \A w \in Workers : CodesOf[w] \subseteq ExitCodes
  BY DEF CodesOf, ExitCodes, Workers, Errors

(***************************************************************************)
(* Types.                                                                  *)
(***************************************************************************)
LEMMA TypeInit == Init => TypeOK
  <1> SUFFICES ASSUME Init PROVE TypeOK
    OBVIOUS
  <1> USE DEF Init
  <1>1. main \in Flags
    BY DEF FreshWorker, Flags
  <1>2. step \in Steps /\ worker \in [Workers -> Flags]
    BY DEF Steps, Flags, FreshWorker
  <1>3. snapshot \in [Sides -> Snapshots]
    BY DEF Snapshots
  <1>4. exitCode \in [Workers -> ExitCodes]
    BY DEF ExitCodes
  <1>5. faults \in 0..MaxFaults /\ starts \in 0..MaxStarts
    BY DEF SyncPalAssumption
  <1>7. thread \in [Workers -> {"off", "run", "pausing", "paused"} \cup ExitCodes]
    OBVIOUS
  <1>6. QED
    BY <1>1, <1>2, <1>3, <1>4, <1>5, <1>7 DEF TypeOK

\* Every step keeps the types.
LEMMA TypeStep == TypeOK /\ [Next]_vars => TypeOK'
  <1> SUFFICES ASSUME TypeOK, [Next]_vars PROVE TypeOK'
    OBVIOUS
  <1>1. /\ worker \in [Workers -> Flags] /\ main \in Flags
        /\ thread \in [Workers -> {"off", "run", "pausing", "paused"} \cup ExitCodes]
        /\ exitCode \in [Workers -> ExitCodes]
        /\ snapshot \in [Sides -> Snapshots]
    BY DEF TypeOK
  <1>2. \A s \in Sides, b \in BOOLEAN :
          /\ Changed(snapshot[s]) \in Snapshots
          /\ InvalidateSnapshot(snapshot[s]) \in Snapshots
          /\ snapshot[s].valid \in BOOLEAN /\ snapshot[s].updating \in BOOLEAN
          /\ [snapshot[s] EXCEPT !.updating = b] \in Snapshots
          /\ [snapshot[s] EXCEPT !.updated = b] \in Snapshots
          /\ [snapshot[s] EXCEPT !.unread = b] \in Snapshots
          /\ InvalidateSnapshot([snapshot[s] EXCEPT !.updating = b]) \in Snapshots
          /\ [Changed(snapshot[s]) EXCEPT !.updating = b] \in Snapshots
          /\ [Changed(snapshot[s]) EXCEPT !.valid = TRUE, !.updating = b] \in Snapshots
    <2> TAKE s \in Sides, b \in BOOLEAN
    <2>1. snapshot[s] \in Snapshots
      BY <1>1
    <2>2. snapshot[s].valid \in BOOLEAN /\ snapshot[s].updating \in BOOLEAN
      BY <2>1 DEF Snapshots
    <2>3. QED
      BY <2>1, <2>2, SnapshotsKept
  <1>3. \A w \in Workers :
          /\ Start(worker[w]) \in Flags /\ Pause(worker[w]) \in Flags
          /\ Unpause(worker[w]) \in Flags /\ Stop(worker[w]) \in Flags
          /\ SetPauseDone(worker[w]) \in Flags /\ SetUnpauseDone(worker[w]) \in Flags
          /\ SetDone(worker[w]) \in Flags
    BY <1>1, FlagsKept
  <1>4. ASSUME NEW s \in Sides, Observer(s) PROVE TypeOK'
    <2>1. CASE ObserverStartsSnapshot(s)
      <3>1. snapshot' \in [Sides -> Snapshots]
        BY <1>1, <1>2, <2>1 DEF ObserverStartsSnapshot
      <3>2. UNCHANGED <<mainVars, workVars, dataVars, apiVars, fso, restart>>
        BY <2>1 DEF ObserverStartsSnapshot
      <3>3. QED
        BY <3>1, <3>2 DEF TypeOK, mainVars, workVars, dataVars, apiVars
    <2>2. CASE ObserverEndsSnapshot(s)
      <3>1. snapshot' \in [Sides -> Snapshots]
        BY <1>1, <1>2, <2>2 DEF ObserverEndsSnapshot
      <3>2. UNCHANGED <<mainVars, workVars, dataVars, apiVars, fso, restart>>
        BY <2>2 DEF ObserverEndsSnapshot
      <3>3. QED
        BY <3>1, <3>2 DEF TypeOK, mainVars, workVars, dataVars, apiVars
    <2>3. CASE ObserverSeesChange(s)
      <3>1. snapshot' \in [Sides -> Snapshots]
        BY <1>1, <1>2, <2>3 DEF ObserverSeesChange
      <3>2. UNCHANGED <<mainVars, workVars, dataVars, apiVars, fso, restart>>
        BY <2>3 DEF ObserverSeesChange
      <3>3. QED
        BY <3>1, <3>2 DEF TypeOK, mainVars, workVars, dataVars, apiVars
    <2>4. CASE ObserverIsQuiet(s)
      <3>1. snapshot' \in [Sides -> Snapshots]
        BY <1>1, <1>2, <2>4 DEF ObserverIsQuiet
      <3>2. UNCHANGED <<mainVars, workVars, dataVars, apiVars, fso, restart>>
        BY <2>4 DEF ObserverIsQuiet
      <3>3. QED
        BY <3>1, <3>2 DEF TypeOK, mainVars, workVars, dataVars, apiVars
    <2>5. CASE ObserverInvalidates(s)
      <3>1. snapshot' \in [Sides -> Snapshots]
        BY <1>1, <1>2, <2>5 DEF ObserverInvalidates
      <3>2. UNCHANGED <<mainVars, workVars, dataVars, apiVars, fso, restart>>
        BY <2>5 DEF ObserverInvalidates
      <3>3. QED
        BY <3>1, <3>2 DEF TypeOK, mainVars, workVars, dataVars, apiVars
    <2>6. CASE ObserverFails(s)
      <3>1. snapshot' \in [Sides -> Snapshots]
        BY <1>1, <1>2, <2>6 DEF ObserverFails
      <3>2. fso' \in [Sides -> {"off", "running", "stopping"}] /\ faults' \in 0..MaxFaults
        BY <2>6 DEF ObserverFails, TypeOK, SyncPalAssumption
      <3>3. UNCHANGED <<mainVars, workVars, dataVars, api, starts, restart>>
        BY <2>6 DEF ObserverFails
      <3>4. QED
        BY <3>1, <3>2, <3>3 DEF TypeOK, mainVars, workVars, dataVars
    <2>7. CASE ObserverSeesStop(s)
      <3>1. snapshot' \in [Sides -> Snapshots]
        BY <1>1, <1>2, <2>7 DEF ObserverSeesStop
      <3>2. fso' \in [Sides -> {"off", "running", "stopping"}]
        BY <2>7 DEF ObserverSeesStop, TypeOK
      <3>3. UNCHANGED <<mainVars, workVars, dataVars, apiVars, restart>>
        BY <2>7 DEF ObserverSeesStop
      <3>4. QED
        BY <3>1, <3>2, <3>3 DEF TypeOK, mainVars, workVars, dataVars, apiVars
    <2>8. QED
      BY <1>4, <2>1, <2>2, <2>3, <2>4, <2>5, <2>6, <2>7 DEF Observer
  <1>5. ASSUME NEW w \in Workers, WorkerThread(w) PROVE TypeOK'
    <2>1. CASE WorkerTestsPause(w)
      <3>1. worker' \in [Workers -> Flags]
        BY <1>1, <1>3, <2>1 DEF WorkerTestsPause
      <3>2. thread' \in [Workers -> {"off", "run", "pausing", "paused"} \cup ExitCodes]
        BY <1>1, <2>1 DEF WorkerTestsPause
      <3>3. UNCHANGED <<mainVars, exitCode, computed, dataVars, apiVars, fso, snapshot, restart>>
        BY <2>1 DEF WorkerTestsPause
      <3>4. QED
        BY <3>1, <3>2, <3>3 DEF TypeOK, mainVars, dataVars, apiVars
    <2>2. CASE WorkerPauses(w)
      <3>1. worker' \in [Workers -> Flags]
        BY <1>1, <1>3, <2>2 DEF WorkerPauses
      <3>2. thread' \in [Workers -> {"off", "run", "pausing", "paused"} \cup ExitCodes]
        BY <1>1, <2>2 DEF WorkerPauses
      <3>3. UNCHANGED <<mainVars, exitCode, computed, dataVars, apiVars, fso, snapshot, restart>>
        BY <2>2 DEF WorkerPauses
      <3>4. QED
        BY <3>1, <3>2, <3>3 DEF TypeOK, mainVars, dataVars, apiVars
    <2>3. CASE WorkerUnpauses(w)
      <3>1. worker' \in [Workers -> Flags]
        BY <1>1, <1>3, <2>3 DEF WorkerUnpauses
      <3>2. thread' \in [Workers -> {"off", "run", "pausing", "paused"} \cup ExitCodes]
        BY <1>1, <2>3 DEF WorkerUnpauses
      <3>3. UNCHANGED <<mainVars, exitCode, computed, dataVars, apiVars, fso, snapshot, restart>>
        BY <2>3 DEF WorkerUnpauses
      <3>4. QED
        BY <3>1, <3>2, <3>3 DEF TypeOK, mainVars, dataVars, apiVars
    <2>4. CASE WorkerLeavesPause(w)
      <3>1. worker' \in [Workers -> Flags]
        BY <1>1, <1>3, <2>4 DEF WorkerLeavesPause
      <3>2. thread' \in [Workers -> {"off", "run", "pausing", "paused"} \cup ExitCodes]
        BY <1>1, <2>4 DEF WorkerLeavesPause
      <3>3. UNCHANGED <<mainVars, exitCode, computed, dataVars, apiVars, fso, snapshot, restart>>
        BY <2>4 DEF WorkerLeavesPause
      <3>4. QED
        BY <3>1, <3>2, <3>3 DEF TypeOK, mainVars, dataVars, apiVars
    <2>5. CASE WorkerWritesCode(w)
      <3>1. thread' \in [Workers -> {"off", "run", "pausing", "paused"} \cup ExitCodes] /\ exitCode' \in [Workers -> ExitCodes]
        BY <1>1, <2>5 DEF WorkerWritesCode
      <3>2. UNCHANGED <<mainVars, worker, computed, dataVars, apiVars, fso, snapshot, restart>>
        BY <2>5 DEF WorkerWritesCode
      <3>3. QED
        BY <3>1, <3>2 DEF TypeOK, mainVars, dataVars, apiVars
    <2>6. ASSUME NEW s \in Sides, ComputeReads(s) PROVE TypeOK'
      <3>1. snapshot' \in [Sides -> Snapshots]
        BY <1>1, <1>2, <2>6 DEF ComputeReads
      <3>2. computed' \subseteq Sides
        BY <2>6 DEF ComputeReads, TypeOK
      <3>3. UNCHANGED <<mainVars, worker, thread, exitCode, dataVars, apiVars, fso, restart>>
        BY <2>6 DEF ComputeReads
      <3>4. QED
        BY <3>1, <3>2, <3>3 DEF TypeOK, mainVars, dataVars, apiVars
    <2> DEFINE Rest == /\ worker' \in [Workers -> Flags]
                       /\ thread' \in [Workers -> {"off", "run", "pausing", "paused"} \cup ExitCodes]
                       /\ exitCode' \in [Workers -> ExitCodes]
                       /\ UNCHANGED <<mainVars, computed, apiVars, fso>>
    <2>7. ASSUME NEW v \in Workers, NEW code \in ExitCodes, Ends(v, code) PROVE Rest
      <3>1. worker' \in [Workers -> Flags]
        BY <1>1, <1>3, <2>7 DEF Ends
      <3>2. thread' \in [Workers -> {"off", "run", "pausing", "paused"} \cup ExitCodes]
        BY <1>1, <2>7 DEF Ends
      <3>3. exitCode' \in [Workers -> ExitCodes]
        BY <1>1, <2>7 DEF Ends
      <3>4. QED
        BY <2>7, <3>1, <3>2, <3>3 DEF Ends
    <2> DEFINE Data == /\ snapshot' \in [Sides -> Snapshots]
                       /\ opsUpdated' \in BOOLEAN /\ mismatch' \in BOOLEAN
                       /\ conflicts' \in BOOLEAN /\ syncOps' \in BOOLEAN
                       /\ restart' \in BOOLEAN /\ debt' \in BOOLEAN
    <2>8. Rest /\ Data => TypeOK'
      BY DEF TypeOK, mainVars, apiVars
    <2> HIDE DEF Rest
    <2>9. ASSUME NEW code \in ExitCodes, ComputeEnds(code) PROVE TypeOK'
      <3>1. Rest
        BY <2>7, <2>9 DEF ComputeEnds, Workers
      <3>2. snapshot' \in [Sides -> Snapshots]
        BY <1>1, <1>2, <2>9 DEF ComputeEnds
      <3>3. Data
        BY <2>9, <3>2 DEF ComputeEnds, TypeOK
      <3>4. QED
        BY <2>8, <3>1, <3>3
    <2>10. ASSUME NEW code \in ExitCodes, TreeEnds(w, code) PROVE TypeOK'
      <3>1. Rest /\ Data
        BY <2>7, <2>10 DEF TreeEnds, TypeOK, dataVars
      <3>2. QED
        BY <2>8, <3>1
    <2>11. CASE FinderEnds
      <3>1. Rest
        BY <2>7, <2>11 DEF FinderEnds, Workers, ExitCodes
      <3>2. Data
        BY <2>11 DEF FinderEnds, TypeOK
      <3>3. QED
        BY <2>8, <3>1, <3>2
    <2>12. ASSUME NEW code \in ExitCodes, ResolverEnds(code) PROVE TypeOK'
      <3>1. Rest
        BY <2>7, <2>12 DEF ResolverEnds, Workers
      <3>2. Data
        BY <2>12 DEF ResolverEnds, TypeOK
      <3>3. QED
        BY <2>8, <3>1, <3>2
    <2>13. ASSUME NEW code \in ExitCodes, GeneratorEnds(code) PROVE TypeOK'
      <3>1. Rest
        BY <2>7, <2>13 DEF GeneratorEnds, Workers
      <3>2. Data
        BY <2>13 DEF GeneratorEnds, TypeOK
      <3>3. QED
        BY <2>8, <3>1, <3>2
    <2>14. CASE SorterEnds
      <3>1. Rest
        BY <2>7, <2>14 DEF SorterEnds, Workers, ExitCodes
      <3>2. Data
        BY <2>14 DEF SorterEnds, TypeOK, dataVars
      <3>3. QED
        BY <2>8, <3>1, <3>2
    <2>15. ASSUME NEW code \in ExitCodes, ExecutorEnds(code) PROVE TypeOK'
      <3>1. Rest
        BY <2>7, <2>15 DEF ExecutorEnds, Workers
      <3>2. snapshot' \in [Sides -> Snapshots]
        BY <1>1, <1>2, <2>15 DEF ExecutorEnds, Sides
      <3>3. Data
        BY <2>15, <3>2 DEF ExecutorEnds, TypeOK
      <3>4. QED
        BY <2>8, <3>1, <3>3
    <2>16. QED
      BY <1>5, <2>1, <2>2, <2>3, <2>4, <2>5, <2>6, <2>9, <2>10, <2>11, <2>12, <2>13, <2>14, <2>15
         DEF WorkerThread
  <1>6. CASE ExecutorAsksPause
    <2>1. main' \in Flags /\ faults' \in 0..MaxFaults
      BY <1>1, <1>6, FlagsKept DEF ExecutorAsksPause, TypeOK, SyncPalAssumption
    <2>2. QED
      BY <1>6, <2>1 DEF ExecutorAsksPause, TypeOK, workVars, dataVars
  <1>7. CASE MainLoop
    <2>1. ForgetCodes => exitCode' \in [Workers -> ExitCodes]
      BY <1>1 DEF ForgetCodes, ExitCodes
    <2>2. StopStepWorkers => worker' \in [Workers -> Flags]
      BY <1>1, <1>3 DEF StopStepWorkers
    <2>3. StopObservers => fso' \in [Sides -> {"off", "running", "stopping"}]
      BY DEF StopObservers, TypeOK
    <2>4. CASE CheckObservers
      <3>1. \A s \in Sides : fso[s] \in {"off", "running", "stopping"} /\ isFSOInProgress[s] \in BOOLEAN
        BY DEF TypeOK
      <3>2. fso' \in [Sides -> {"off", "running", "stopping"}]
        BY <2>4, <3>1 DEF CheckObservers
      <3>3. isFSOInProgress' \in [Sides -> BOOLEAN]
        <4>1. \A s \in Sides, S \in SUBSET Sides : (s \in S) \in BOOLEAN
          OBVIOUS
        <4>2. QED
          BY <2>4, <3>1, <4>1 DEF CheckObservers
      <3>4. main' \in Flags
        BY <1>1, <2>4, FlagsKept DEF CheckObservers
      <3>5. QED
        BY <2>4, <3>2, <3>3, <3>4 DEF CheckObservers, TypeOK, workVars, dataVars, apiVars
    <2>5. CASE TestStop
      BY <2>2, <2>3, <2>5 DEF TestStop, TypeOK, dataVars, apiVars
    <2>6. CASE TestPause
      BY <2>6 DEF TestPause, TypeOK, workVars, dataVars, apiVars
    <2>7. CASE PauseAllWorkers
      <3>1. worker' \in [Workers -> Flags] /\ main' \in Flags
        BY <1>1, <1>3, <2>7, FlagsKept DEF PauseAllWorkers
      <3>2. QED
        BY <2>7, <3>1 DEF PauseAllWorkers, TypeOK, dataVars, apiVars
    <2>8. CASE UnpauseAllWorkers
      <3>1. worker' \in [Workers -> Flags] /\ main' \in Flags
        BY <1>1, <1>3, <2>8, FlagsKept DEF UnpauseAllWorkers
      <3>2. QED
        BY <2>8, <3>1 DEF UnpauseAllWorkers, TypeOK, dataVars, apiVars
    <2>9. CASE StartStep
      <3>1. snapshot' \in [Sides -> Snapshots]
        BY <1>1, <1>2, <2>9 DEF StartStep
      <3>2. worker' \in [Workers -> Flags] /\ thread' \in [Workers -> {"off", "run", "pausing", "paused"} \cup ExitCodes]
        BY <1>1, <1>3, <2>9 DEF StartStep
      <3>3. QED
        BY <2>1, <2>9, <3>1, <3>2 DEF StartStep, TypeOK, dataVars, apiVars
    <2>10. CASE AdvanceStep
      <3>1. step' \in Steps /\ restart' \in BOOLEAN
        BY <2>10, NextStepIsAStep DEF AdvanceStep, RestartAfter, TypeOK
      <3>2. QED
        BY <2>1, <2>10, <3>1 DEF AdvanceStep, TypeOK, dataVars, apiVars
    <2>11. CASE StepGoesOn
      BY <2>11 DEF StepGoesOn, TypeOK, workVars, dataVars, apiVars
    <2>12. CASE AbortForNetwork \/ AbortAndRestart
      BY <2>2, <2>12 DEF AbortForNetwork, AbortAndRestart, TypeOK, dataVars, apiVars
    <2>13. CASE AbortAndExit
      BY <2>2, <2>3, <2>13 DEF AbortAndExit, TypeOK, dataVars, apiVars
    <2>14. CASE NetworkAborted
      BY <1>1, <2>14, FlagsKept DEF NetworkAborted, TypeOK, workVars, dataVars, apiVars
    <2>15. CASE RestartAborted
      <3>1. snapshot' \in [Sides -> Snapshots]
        BY <1>1, <1>2, <2>15 DEF RestartAborted
      <3>2. QED
        BY <2>1, <2>15, <3>1 DEF RestartAborted, TypeOK, Steps, apiVars
    <2>16. CASE Exit
      BY <1>1, <2>16, FlagsKept DEF Exit, TypeOK, workVars, dataVars, apiVars
    <2>17. QED
      BY <1>7, <2>4, <2>5, <2>6, <2>7, <2>8, <2>9, <2>10, <2>11, <2>12, <2>13, <2>14, <2>15, <2>16
         DEF MainLoop
  <1>8. CASE ApiStart
    <2>1. snapshot' \in [Sides -> Snapshots]
      BY <1>1, <1>2, <1>8 DEF ApiStart
    <2>2. main' \in Flags /\ worker' \in [Workers -> Flags]
      BY <1>8, FreshFlags, FlagsKept DEF ApiStart
    <2>3. exitCode' \in [Workers -> ExitCodes] /\ step' \in Steps /\ starts' \in 0..MaxStarts
      BY <1>8 DEF ApiStart, ExitCodes, Steps, TypeOK, SyncPalAssumption
    <2>4. QED
      BY <1>8, <2>1, <2>2, <2>3 DEF ApiStart, TypeOK
  <1>9. CASE ApiPause \/ ApiUnpause \/ ApiStop \/ ApiStopReturns
    <2>1. main' \in Flags
      BY <1>1, <1>9, FlagsKept DEF ApiPause, ApiUnpause, ApiStop, ApiStopReturns, mainVars
    <2>2. faults' \in 0..MaxFaults /\ api' \in {"free", "stopping"}
      BY <1>9 DEF ApiPause, ApiUnpause, ApiStop, ApiStopReturns, apiVars, TypeOK, SyncPalAssumption
    <2>3. QED
      BY <1>9, <2>1, <2>2 DEF ApiPause, ApiUnpause, ApiStop, ApiStopReturns, TypeOK,
           mainVars, workVars, dataVars, apiVars
  <1>10. CASE UNCHANGED vars
    BY <1>10 DEF TypeOK, vars, mainVars, workVars, dataVars, apiVars
  <1>11. QED
    BY <1>4, <1>5, <1>6, <1>7, <1>8, <1>9, <1>10 DEF Next

\* TypeCorrect: the flags, steps, exit codes, snapshots and counters of the loop
\* and its workers keep their type through every call, failure and restart.
THEOREM TypeCorrect == Spec => []TypeOK
  BY TypeInit, TypeStep, PTL DEF Spec

(***************************************************************************)
(* The inductive invariant. That only the workers of the current step work *)
(* is preserved because a worker that works is seen as running, so that no *)
(* branch of the loop can leave the step; that the list of operations is   *)
(* empty outside a cycle, because the executor, the only worker of its     *)
(* step, has emptied it when it stops working.                             *)
(***************************************************************************)
WorkersOfStep == \A w \in Workers : Works(w) => w \in StepWorkers[step] /\ worker[w].isRunning

RunningUnlessOff == pc # "off" <=> main.isRunning

ExecutorEmptiesList ==
    (step = "Propagation2" /\ isStepInProgress /\ ~Works("executor")) => ~syncOps

LoopInv ==
    /\ WorkersOfStep
    /\ RunningUnlessOff
    /\ AllStoppedOnExit
    /\ ExecutorEmptiesList
    /\ NoStaleOperations

\* The loop invariant holds at the start.
LEMMA LoopInit == Init => LoopInv
  BY FreshFlags DEF Init, LoopInv, WorkersOfStep, RunningUnlessOff, AllStoppedOnExit,
     ExecutorEmptiesList, NoStaleOperations, Works

(***************************************************************************)
(* What a step of a worker may do: it leaves the loop alone, starts no     *)
(* worker, and only the resolver and the generator fill the list.          *)
(***************************************************************************)
LEMMA EndOfWorker ==
  ASSUME TypeOK, NEW v \in Workers, NEW code \in ExitCodes, Ends(v, code)
  PROVE  /\ UNCHANGED <<main, pc, step, isStepInProgress, fso>>
         /\ thread[v] = "run" /\ ~Works(v)'
         /\ \A u \in Workers \ {v} : thread'[u] = thread[u] /\ worker'[u] = worker[u]
  BY DEF Ends, TypeOK, Works, ExitCodes, Errors, mainVars

WorkerEffect ==
    /\ UNCHANGED <<main, pc, step, isStepInProgress, fso>>
    /\ \A v \in Workers : Works(v)' => Works(v) /\ worker'[v].isRunning = worker[v].isRunning
    /\ syncOps' => syncOps \/ Works("resolver") \/ Works("generator")
    /\ Works("executor") => Works("executor")' \/ ~syncOps'

\* What a worker may do by itself, as far as the loop invariant is concerned.
LEMMA StepOfWorker ==
  ASSUME TypeOK, NEW w \in Workers, WorkerThread(w)
  PROVE  WorkerEffect
  <1>1. /\ worker \in [Workers -> Flags]
        /\ thread \in [Workers -> {"off", "run", "pausing", "paused"} \cup ExitCodes]
    BY DEF TypeOK
  <1>2. {"compute", "finder", "resolver", "generator", "sorter", "executor"} \subseteq Workers
    BY DEF Workers
  <1>3. "Ok" \in ExitCodes /\ {"off", "run", "pausing", "paused"} \cap ExitCodes = {}
    BY DEF ExitCodes, Errors
  \* A worker that goes into a pause or out of it works before and after.
  <1>4. ASSUME UNCHANGED <<mainVars, syncOps, fso>>, Works(w),
               thread' = [thread EXCEPT ![w] = thread'[w]],
               thread'[w] \in {"run", "pausing", "paused"},
               \A v \in Workers : worker'[v].isRunning = worker[v].isRunning
        PROVE  WorkerEffect
    BY <1>1, <1>2, <1>4 DEF WorkerEffect, Works, mainVars
  <1>5. CASE WorkerTestsPause(w) \/ WorkerPauses(w) \/ WorkerUnpauses(w) \/ WorkerLeavesPause(w)
    <2>1. worker[w] \in Flags
      BY <1>1
    <2>2. /\ SetPauseDone(worker[w]).isRunning = worker[w].isRunning
          /\ SetUnpauseDone(worker[w]).isRunning = worker[w].isRunning
      BY <2>1, FlagsKept
    <2>3. \A v \in Workers : worker'[v].isRunning = worker[v].isRunning
      BY <1>1, <1>5, <2>2 DEF WorkerTestsPause, WorkerPauses, WorkerUnpauses, WorkerLeavesPause
    <2>4. /\ UNCHANGED <<mainVars, syncOps, fso>> /\ Works(w)
          /\ thread'[w] \in {"run", "pausing", "paused"}
      BY <1>1, <1>5 DEF WorkerTestsPause, WorkerPauses, WorkerUnpauses, WorkerLeavesPause,
         Works, dataVars
    <2>5. thread' = [thread EXCEPT ![w] = thread'[w]]
      BY <1>1, <1>5 DEF WorkerTestsPause, WorkerPauses, WorkerUnpauses, WorkerLeavesPause
    <2>6. QED
      BY <1>4, <2>3, <2>4, <2>5
  <1>6. CASE WorkerWritesCode(w)
    BY <1>1, <1>3, <1>6 DEF WorkerWritesCode, WorkerEffect, Works, mainVars, dataVars
  <1>7. ASSUME NEW s \in Sides, ComputeReads(s) PROVE WorkerEffect
    BY <1>7 DEF ComputeReads, WorkerEffect, Works, mainVars, dataVars
  <1>8. ASSUME NEW v \in Workers, NEW code \in ExitCodes, Ends(v, code),
               syncOps' => syncOps \/ v \in {"resolver", "generator"},
               v = "executor" => ~syncOps'
        PROVE  WorkerEffect
    BY <1>2, <1>8, EndOfWorker DEF WorkerEffect, Works
  <1>9. ASSUME NEW code \in ExitCodes, ComputeEnds(code) PROVE WorkerEffect
    BY <1>2, <1>8, <1>9 DEF ComputeEnds
  <1>10. ASSUME NEW code \in ExitCodes, TreeEnds(w, code) PROVE WorkerEffect
    BY <1>8, <1>10 DEF TreeEnds, dataVars
  <1>11. CASE FinderEnds
    BY <1>2, <1>3, <1>8, <1>11 DEF FinderEnds
  <1>12. ASSUME NEW code \in ExitCodes, ResolverEnds(code) PROVE WorkerEffect
    BY <1>2, <1>8, <1>12 DEF ResolverEnds
  <1>13. ASSUME NEW code \in ExitCodes, GeneratorEnds(code) PROVE WorkerEffect
    BY <1>2, <1>8, <1>13 DEF GeneratorEnds
  <1>14. CASE SorterEnds
    BY <1>2, <1>3, <1>8, <1>14 DEF SorterEnds, dataVars
  <1>15. ASSUME NEW code \in ExitCodes, ExecutorEnds(code) PROVE WorkerEffect
    BY <1>2, <1>8, <1>15 DEF ExecutorEnds
  <1>16. QED
    BY <1>4, <1>5, <1>6, <1>7, <1>9, <1>10, <1>11, <1>12, <1>13, <1>14, <1>15 DEF WorkerThread

(***************************************************************************)
(* When the branches of the loop that leave a step are taken, no worker    *)
(* works any more: whoever works is one of the step and is seen running.   *)
(***************************************************************************)
LEMMA NobodyWorks ==
  ASSUME TypeOK, WorkersOfStep, Codes \subseteq {"Ok"} \/ StepWorkersExited
  PROVE  \A w \in Workers : ~Works(w)
  BY DEF WorkersOfStep, Codes, Read, StepWorkersExited, TypeOK

\* Every step keeps the loop invariant.
LEMMA LoopStep == TypeOK /\ LoopInv /\ [Next]_vars => LoopInv'
  <1> SUFFICES ASSUME TypeOK, LoopInv, [Next]_vars PROVE LoopInv'
    OBVIOUS
  <1>1. /\ worker \in [Workers -> Flags] /\ main \in Flags /\ step \in Steps
        /\ thread \in [Workers -> {"off", "run", "pausing", "paused"} \cup ExitCodes]
        /\ "executor" \in Workers /\ "resolver" \in Workers /\ "generator" \in Workers
    BY DEF TypeOK, Workers
  <1>2. \A w \in Workers : Stop(worker[w]).isRunning = worker[w].isRunning
    BY <1>1, FlagsKept
  \* Every step of the loop or the application that keeps the threads and the step.
  <1>3. ASSUME UNCHANGED <<thread, step, syncOps>>,
               \A w \in Workers : worker'[w].isRunning = worker[w].isRunning,
               pc' # "off" <=> pc # "off", main'.isRunning = main.isRunning,
               \A s \in Sides : fso[s] = "off" => fso'[s] = "off" \/ pc # "off",
               isStepInProgress' => isStepInProgress
        PROVE  LoopInv'
    BY <1>3 DEF LoopInv, WorkersOfStep, RunningUnlessOff, AllStoppedOnExit,
       ExecutorEmptiesList, NoStaleOperations, Works
  <1>4. ASSUME NEW s \in Sides, Observer(s) PROVE LoopInv'
    <2>1. /\ UNCHANGED <<mainVars, workVars, dataVars>>
          /\ \A t \in Sides : fso[t] = "off" => fso'[t] = "off"
      BY <1>4 DEF Observer, ObserverStartsSnapshot, ObserverEndsSnapshot, ObserverSeesChange,
         ObserverIsQuiet, ObserverInvalidates, ObserverFails, ObserverSeesStop, TypeOK
    <2>2. QED
      BY <1>3, <2>1 DEF mainVars, workVars, dataVars
  <1>5. ASSUME NEW w \in Workers, WorkerThread(w) PROVE LoopInv'
    <2>1. WorkerEffect
      BY <1>5, StepOfWorker
    <2>2. /\ Works("resolver") => step = "Reconciliation3"
          /\ Works("generator") => step = "Reconciliation4"
      BY <1>1, StepTable DEF LoopInv, WorkersOfStep
    <2>3. WorkersOfStep'
      BY <2>1 DEF WorkerEffect, LoopInv, WorkersOfStep
    <2>4. RunningUnlessOff' /\ AllStoppedOnExit'
      BY <2>1 DEF WorkerEffect, LoopInv, RunningUnlessOff, AllStoppedOnExit
    <2>5. ExecutorEmptiesList'
      BY <2>1, <2>2 DEF WorkerEffect, LoopInv, ExecutorEmptiesList
    <2>6. NoStaleOperations'
      BY <2>1, <2>2 DEF WorkerEffect, LoopInv, NoStaleOperations
    <2>7. QED
      BY <2>3, <2>4, <2>5, <2>6 DEF LoopInv
  <1>6. CASE ExecutorAsksPause
    BY <1>1, <1>3, <1>6, FlagsKept DEF ExecutorAsksPause, workVars, dataVars
  <1>7. CASE MainLoop
    <2>1. CASE CheckObservers
      <3>1. main'.isRunning = main.isRunning
        BY <1>1, <2>1, FlagsKept DEF CheckObservers
      <3>2. QED
        BY <1>3, <2>1, <3>1 DEF CheckObservers, workVars, dataVars
    <2>2. CASE TestStop
      BY <1>1, <1>2, <1>3, <2>2 DEF TestStop, StopObservers, StopStepWorkers, dataVars, TypeOK
    <2>3. CASE TestPause \/ StepGoesOn
      BY <1>3, <2>3 DEF TestPause, StepGoesOn, LooksAtStep, workVars, dataVars
    <2>4. CASE PauseAllWorkers \/ UnpauseAllWorkers
      <3>1. main'.isRunning = main.isRunning
        BY <1>1, <2>4, FlagsKept DEF PauseAllWorkers, UnpauseAllWorkers
      <3>2. \A w \in Workers : worker'[w].isRunning = worker[w].isRunning
        BY <1>1, <2>4, FlagsKept DEF PauseAllWorkers, UnpauseAllWorkers
      <3>3. QED
        BY <1>3, <2>4, <3>1, <3>2 DEF PauseAllWorkers, UnpauseAllWorkers, dataVars
    <2>5. CASE StartStep
      <3>1. WorkersOfStep'
        BY <1>1, <2>5, FlagsKept DEF StartStep, LoopInv, WorkersOfStep, Works
      <3>2. RunningUnlessOff' /\ AllStoppedOnExit'
        BY <2>5 DEF StartStep, LoopInv, RunningUnlessOff, AllStoppedOnExit
      <3>3. ExecutorEmptiesList'
        BY <1>1, <2>5, StepTable DEF StartStep, ExecutorEmptiesList, Works
      <3>4. NoStaleOperations'
        BY <2>5 DEF StartStep, LoopInv, NoStaleOperations
      <3>5. QED
        BY <3>1, <3>2, <3>3, <3>4 DEF LoopInv
    <2>6. CASE AdvanceStep
      <3>1. \A w \in Workers : ~Works(w) /\ ~Works(w)'
        BY <2>6, NobodyWorks DEF AdvanceStep, LoopInv, Works
      <3>2. step = "Propagation2" => ~syncOps
        BY <1>1, <2>6, <3>1 DEF AdvanceStep, LooksAtStep, LoopInv, ExecutorEmptiesList
      <3>3. /\ step' = step => isStepInProgress'
            /\ step' # step => ~isStepInProgress'
        BY <2>6 DEF AdvanceStep
      <3>4. ExecutorEmptiesList'
        BY <2>6, <3>2, <3>3 DEF AdvanceStep, ExecutorEmptiesList, dataVars
      <3>5. NoStaleOperations'
        BY <1>1, <2>6, <3>2 DEF AdvanceStep, NextStep, Steps, LoopInv, NoStaleOperations, dataVars
      <3>6. QED
        BY <2>6, <3>1, <3>4, <3>5 DEF AdvanceStep, LooksAtStep, LoopInv, WorkersOfStep,
           RunningUnlessOff, AllStoppedOnExit
    <2>7. CASE AbortForNetwork \/ AbortAndRestart \/ AbortAndExit
      BY <1>1, <1>2, <1>3, <2>7 DEF AbortForNetwork, AbortAndRestart, AbortAndExit, LooksAtStep,
         StopObservers, StopStepWorkers, dataVars, TypeOK
    <2>8. CASE NetworkAborted
      BY <1>1, <1>3, <2>8, FlagsKept DEF NetworkAborted, workVars, dataVars
    <2>9. CASE RestartAborted
      <3>1. \A w \in Workers : ~Works(w)'
        BY <2>9, NobodyWorks DEF RestartAborted, LoopInv, Works
      <3>2. QED
        BY <2>9, <3>1 DEF RestartAborted, LoopInv, WorkersOfStep, RunningUnlessOff,
           AllStoppedOnExit, ExecutorEmptiesList, NoStaleOperations
    <2>10. CASE Exit
      <3>1. \A w \in Workers : ~Works(w) /\ ~Works(w)'
        BY <2>10, NobodyWorks DEF Exit, AllWorkersExited, LoopInv, Works, workVars
      <3>2. ~main'.isRunning
        BY <1>1, <2>10, FlagsKept DEF Exit
      <3>3. QED
        BY <1>1, <2>10, <3>1, <3>2 DEF Exit, AllWorkersExited, LoopInv, WorkersOfStep,
           RunningUnlessOff, AllStoppedOnExit, ExecutorEmptiesList, NoStaleOperations,
           workVars, dataVars
    <2>11. QED
      BY <1>7, <2>1, <2>2, <2>3, <2>4, <2>5, <2>6, <2>7, <2>8, <2>9, <2>10 DEF MainLoop
  <1>8. CASE ApiStart
    <2>1. main'.isRunning
      BY <1>8, FreshFlags, FlagsKept DEF ApiStart
    <2>2. \A w \in Workers : ~Works(w)'
      BY <1>8 DEF ApiStart, Works
    <2>3. QED
      BY <1>8, <2>1, <2>2 DEF ApiStart, LoopInv, WorkersOfStep, RunningUnlessOff,
         AllStoppedOnExit, ExecutorEmptiesList, NoStaleOperations
  <1>9. CASE ApiPause \/ ApiUnpause \/ ApiStop \/ ApiStopReturns
    <2>1. main'.isRunning = main.isRunning
      BY <1>1, <1>9, FlagsKept DEF ApiPause, ApiUnpause, ApiStop, ApiStopReturns, mainVars
    <2>2. QED
      BY <1>3, <1>9, <2>1 DEF ApiPause, ApiUnpause, ApiStop, ApiStopReturns, mainVars,
         workVars, dataVars
  <1>10. CASE UNCHANGED vars
    BY <1>3, <1>10 DEF vars, mainVars, workVars, dataVars
  <1>11. QED
    BY <1>4, <1>5, <1>6, <1>7, <1>8, <1>9, <1>10 DEF Next

\* The loop invariant always holds.
LEMMA LoopInvariant == Spec => []LoopInv
  <1>1. TypeOK /\ TypeOK' /\ LoopInv /\ [Next]_vars => LoopInv'
    BY LoopStep
  <1>2. QED
    BY <1>1, LoopInit, TypeCorrect, PTL DEF Spec

\* StepsExclude: whatever is stopped, paused or restarted, and whenever, the
\* workers of two steps never work at the same time.
THEOREM StepsExclude == Spec => []OneStepAtATime
  <1>1. LoopInv => OneStepAtATime
    BY DEF LoopInv, WorkersOfStep, OneStepAtATime
  <1>2. QED
    BY <1>1, LoopInvariant, PTL

\* ExitLeavesNobody: when the loop has ended no worker and no observer works.
THEOREM ExitLeavesNobody == Spec => []AllStoppedOnExit
  <1>1. LoopInv => AllStoppedOnExit
    BY DEF LoopInv
  <1>2. QED
    BY <1>1, LoopInvariant, PTL

\* ListEmptyBetweenCycles: no operation of a cycle survives it, by success,
\* failure, stop or restart.
THEOREM ListEmptyBetweenCycles == Spec => []NoStaleOperations
  <1>1. LoopInv => NoStaleOperations
    BY DEF LoopInv
  <1>2. QED
    BY <1>1, LoopInvariant, PTL

(***************************************************************************)
(* No change is lost. The argument, in addition to LoopInv: a snapshot     *)
(* that holds something unread is marked (updated, or to be built again)   *)
(* or the computation still has to read it, for as long as a computation   *)
(* is under way and may succeed; the loop leaves the step only when it has *)
(* succeeded. A stopped SyncPal starts with a local snapshot to build.     *)
(* The computation is assumed to write its exit code before it is seen as  *)
(* ended: otherwise the loop may read the success of an earlier run.       *)
(***************************************************************************)
RunningMeansWorking == \A w \in Workers : worker[w].isRunning => Works(w)

OnlySlowHaveCodeLeft == \A w \in Workers : thread[w] \in ExitCodes => w \in SlowToEnd

Leaving == {"waitNetwork", "waitRestart", "waitExit", "off"}

StopOnlyToLeave ==
    \A w \in Workers : Works(w) /\ worker[w].stopAsked => pc \in Leaving

LocalInvalidWhenOff == fso["local"] = "off" => ~snapshot["local"].valid

Marked(s) == snapshot[s].updated \/ ~snapshot[s].valid
Covered(s) == ~snapshot[s].unread \/ Marked(s) \/ restart

ReadIsCovered ==
    (step = "UpdateDetection1" /\ isStepInProgress /\ pc \notin Leaving) =>
        /\ Works("compute") => \A s \in computed : Covered(s)
        /\ (~Works("compute") /\ exitCode["compute"] = "Ok") => \A s \in Sides : Covered(s)

ThreadInv == RunningMeansWorking /\ OnlySlowHaveCodeLeft /\ StopOnlyToLeave

ChangeInv == LocalInvalidWhenOff /\ ReadIsCovered /\ NoChangeLost

\* The thread invariant holds at the start.
LEMMA ThreadInit == Init => ThreadInv
  BY FreshFlags DEF Init, ThreadInv, RunningMeansWorking, OnlySlowHaveCodeLeft, StopOnlyToLeave,
     Works, ExitCodes, Errors, Workers

\* What the methods do to the stop request.
LEMMA StopRequest ==
  ASSUME NEW f \in Flags
  PROVE  /\ ~f.isRunning => ~Start(f).stopAsked
         /\ Pause(f).stopAsked = f.stopAsked
         /\ Unpause(f).stopAsked = f.stopAsked
         /\ SetPauseDone(f).stopAsked = f.stopAsked
         /\ SetUnpauseDone(f).stopAsked = f.stopAsked
  BY DEF Flags, Start, Pause, Unpause, SetPauseDone, SetUnpauseDone

\* A step of a worker keeps the three facts about threads.
LEMMA ThreadStepOfWorker ==
  ASSUME TypeOK, ThreadInv, NEW w \in Workers, WorkerThread(w)
  PROVE  ThreadInv'
  <1>1. /\ worker \in [Workers -> Flags]
        /\ thread \in [Workers -> {"off", "run", "pausing", "paused"} \cup ExitCodes]
    BY DEF TypeOK
  <1>2. {"compute", "finder", "resolver", "generator", "sorter", "executor"} \subseteq Workers
    BY DEF Workers
  <1>3. "Ok" \in ExitCodes /\ {"off", "run", "pausing", "paused"} \cap ExitCodes = {}
    BY DEF ExitCodes, Errors
  <1>4. CASE WorkerTestsPause(w) \/ WorkerPauses(w) \/ WorkerUnpauses(w) \/ WorkerLeavesPause(w)
    <2>1. worker[w] \in Flags
      BY <1>1
    <2>2. /\ SetPauseDone(worker[w]).isRunning = worker[w].isRunning
          /\ SetUnpauseDone(worker[w]).isRunning = worker[w].isRunning
          /\ SetPauseDone(worker[w]).stopAsked = worker[w].stopAsked
          /\ SetUnpauseDone(worker[w]).stopAsked = worker[w].stopAsked
      BY <2>1, FlagsKept, StopRequest
    <2>3. \A v \in Workers : /\ worker'[v].isRunning = worker[v].isRunning
                             /\ worker'[v].stopAsked = worker[v].stopAsked
      BY <1>1, <1>4, <2>2 DEF WorkerTestsPause, WorkerPauses, WorkerUnpauses, WorkerLeavesPause
    <2>4. /\ UNCHANGED pc /\ Works(w) /\ Works(w)'
          /\ \A v \in Workers \ {w} : thread'[v] = thread[v]
      BY <1>1, <1>4 DEF WorkerTestsPause, WorkerPauses, WorkerUnpauses, WorkerLeavesPause,
         Works, mainVars
    <2>5. QED
      BY <1>2, <1>3, <2>3, <2>4 DEF ThreadInv, RunningMeansWorking, OnlySlowHaveCodeLeft,
         StopOnlyToLeave, Works
  <1>5. CASE WorkerWritesCode(w)
    BY <1>1, <1>2, <1>3, <1>5 DEF WorkerWritesCode, ThreadInv, RunningMeansWorking,
       OnlySlowHaveCodeLeft, StopOnlyToLeave, Works, mainVars
  <1>6. ASSUME NEW s \in Sides, ComputeReads(s) PROVE ThreadInv'
    BY <1>6 DEF ComputeReads, ThreadInv, RunningMeansWorking, OnlySlowHaveCodeLeft,
       StopOnlyToLeave, Works, mainVars
  <1>7. ASSUME NEW v \in Workers, NEW code \in ExitCodes, Ends(v, code) PROVE ThreadInv'
    <2>1. /\ thread'[v] = "off" \/ v \in SlowToEnd
          /\ ~worker'[v].isRunning
      BY <1>1, <1>3, <1>7, FlagsKept DEF Ends
    <2>2. /\ UNCHANGED pc /\ ~Works(v)'
          /\ \A u \in Workers \ {v} : thread'[u] = thread[u] /\ worker'[u] = worker[u]
      BY <1>7, EndOfWorker
    <2>3. RunningMeansWorking'
      BY <2>1, <2>2 DEF ThreadInv, RunningMeansWorking, Works
    <2>4. OnlySlowHaveCodeLeft'
      <3>1. thread'[v] \in ExitCodes => v \in SlowToEnd
        BY <1>3, <2>1
      <3>2. \A u \in Workers \ {v} : thread'[u] \in ExitCodes => u \in SlowToEnd
        BY <2>2 DEF ThreadInv, OnlySlowHaveCodeLeft
      <3>3. QED
        BY <3>1, <3>2 DEF OnlySlowHaveCodeLeft
    <2>5. StopOnlyToLeave'
      BY <1>2, <2>2 DEF ThreadInv, StopOnlyToLeave, Works
    <2>6. QED
      BY <2>3, <2>4, <2>5 DEF ThreadInv
  <1>8. QED
    BY <1>2, <1>3, <1>4, <1>5, <1>6, <1>7 DEF WorkerThread, ComputeEnds, TreeEnds, FinderEnds,
       ResolverEnds, GeneratorEnds, SorterEnds, ExecutorEnds

\* Every step keeps the thread invariant.
LEMMA ThreadStep == TypeOK /\ LoopInv /\ ThreadInv /\ [Next]_vars => ThreadInv'
  <1> SUFFICES ASSUME TypeOK, LoopInv, ThreadInv, [Next]_vars PROVE ThreadInv'
    OBVIOUS
  <1>1. /\ worker \in [Workers -> Flags] /\ main \in Flags /\ "compute" \in Workers
        /\ thread \in [Workers -> {"off", "run", "pausing", "paused"} \cup ExitCodes]
        /\ {"off", "run", "pausing", "paused"} \cap ExitCodes = {}
    BY DEF TypeOK, Workers, ExitCodes, Errors
  <1>2. \A w \in Workers : Stop(worker[w]).isRunning = worker[w].isRunning
    BY <1>1, FlagsKept
  <1>3. ASSUME UNCHANGED thread, \A w \in Workers : worker'[w].isRunning = worker[w].isRunning,
               \/ pc' \in Leaving
               \/ \A w \in Workers : /\ pc \in Leaving => ~Works(w)
                                     /\ worker'[w].stopAsked = worker[w].stopAsked
        PROVE  ThreadInv'
    BY <1>3 DEF ThreadInv, RunningMeansWorking, OnlySlowHaveCodeLeft, StopOnlyToLeave, Works
  <1>4. ASSUME NEW s \in Sides, Observer(s) PROVE ThreadInv'
    <2>1. UNCHANGED <<mainVars, workVars>>
      BY <1>4 DEF Observer, ObserverStartsSnapshot, ObserverEndsSnapshot, ObserverSeesChange,
         ObserverIsQuiet, ObserverInvalidates, ObserverFails, ObserverSeesStop
    <2>2. QED
      BY <2>1 DEF mainVars, workVars, ThreadInv, RunningMeansWorking, OnlySlowHaveCodeLeft,
         StopOnlyToLeave, Works
  <1>5. ASSUME NEW w \in Workers, WorkerThread(w) PROVE ThreadInv'
    BY <1>5, ThreadStepOfWorker
  <1>6. CASE MainLoop
    <2>1. CASE CheckObservers \/ TestPause \/ StepGoesOn
      BY <1>3, <2>1 DEF CheckObservers, TestPause, StepGoesOn, LooksAtStep, workVars, Leaving
    <2>2. CASE TestStop
      BY <1>1, <1>2, <1>3, <2>2 DEF TestStop, StopStepWorkers, Leaving
    <2>3. CASE PauseAllWorkers \/ UnpauseAllWorkers
      <3>1. \A w \in Workers : /\ worker'[w].isRunning = worker[w].isRunning
                               /\ worker'[w].stopAsked = worker[w].stopAsked
        <4>1. \A w \in Workers :
                /\ Pause(worker[w]).isRunning = worker[w].isRunning
                /\ Unpause(worker[w]).isRunning = worker[w].isRunning
                /\ Pause(worker[w]).stopAsked = worker[w].stopAsked
                /\ Unpause(worker[w]).stopAsked = worker[w].stopAsked
          BY <1>1, FlagsKept, StopRequest
        <4>2. QED
          BY <1>1, <2>3, <4>1 DEF PauseAllWorkers, UnpauseAllWorkers
      <3>2. QED
        BY <1>1, <1>3, <2>3, <3>1 DEF PauseAllWorkers, UnpauseAllWorkers, Leaving
    <2>4. CASE StartStep
      <3>1. \A w \in Workers : IF w \in StepWorkers[step]
                               THEN thread[w] = "off" /\ thread'[w] = "run"
                                    /\ worker'[w] = Start(worker[w])
                               ELSE thread'[w] = thread[w] /\ worker'[w] = worker[w]
        BY <1>1, <2>4 DEF StartStep
      <3>2. \A w \in StepWorkers[step] : ~worker[w].isRunning
        BY <2>4, StepTable DEF StartStep, ThreadInv, RunningMeansWorking, Works, TypeOK
      <3>3. \A w \in Workers : worker[w] \in Flags
        BY <1>1
      <3>4. StopOnlyToLeave'
        BY <1>1, <2>4, <3>1, <3>2, <3>3, StopRequest
           DEF StartStep, ThreadInv, StopOnlyToLeave, Works, Leaving
      <3>5. RunningMeansWorking' /\ OnlySlowHaveCodeLeft'
        BY <1>1, <3>1 DEF ThreadInv, RunningMeansWorking, OnlySlowHaveCodeLeft, Works
      <3>6. QED
        BY <3>4, <3>5 DEF ThreadInv
    <2>5. CASE AdvanceStep
      BY <1>3, <2>5 DEF AdvanceStep, LooksAtStep, Leaving
    <2>6. CASE AbortForNetwork \/ AbortAndRestart \/ AbortAndExit
      BY <1>1, <1>2, <1>3, <2>6 DEF AbortForNetwork, AbortAndRestart, AbortAndExit,
         StopStepWorkers, Leaving
    <2>7. CASE NetworkAborted \/ RestartAborted \/ Exit
      <3>1. \A w \in Workers : ~Works(w)
        BY <2>7, NobodyWorks DEF NetworkAborted, RestartAborted, Exit, AllWorkersExited, LoopInv
      <3>2. QED
        BY <1>3, <2>7, <3>1 DEF NetworkAborted, RestartAborted, Exit, workVars
    <2>8. QED
      BY <1>6, <2>1, <2>2, <2>3, <2>4, <2>5, <2>6, <2>7 DEF MainLoop
  <1>7. CASE ApiStart
    BY <1>1, <1>7, FreshFlags DEF ApiStart, ThreadInv, RunningMeansWorking, OnlySlowHaveCodeLeft,
       StopOnlyToLeave, Works
  <1>8. CASE ExecutorAsksPause \/ ApiPause \/ ApiUnpause \/ ApiStop \/ ApiStopReturns
             \/ UNCHANGED vars
    <2>1. UNCHANGED <<pc, worker, thread>>
      BY <1>8 DEF ExecutorAsksPause, ApiPause, ApiUnpause, ApiStop, ApiStopReturns, vars,
         mainVars, workVars
    <2>2. QED
      BY <2>1 DEF ThreadInv, RunningMeansWorking, OnlySlowHaveCodeLeft, StopOnlyToLeave, Works
  <1>9. QED
    BY <1>4, <1>5, <1>6, <1>7, <1>8 DEF Next

\* The thread invariant always holds.
LEMMA ThreadInvariant == Spec => []ThreadInv
  <1>1. TypeOK /\ LoopInv /\ ThreadInv /\ [Next]_vars => ThreadInv'
    BY ThreadStep
  <1>2. QED
    BY <1>1, ThreadInit, TypeCorrect, LoopInvariant, PTL DEF Spec

\* The change invariant holds at the start.
LEMMA ChangeInit == Init => ChangeInv
  BY DEF Init, ChangeInv, LocalInvalidWhenOff, ReadIsCovered, NoChangeLost, Sides

\* A step that marks what it makes unread, and unmarks nothing.
SnapshotsStayMarked ==
    \A s \in Sides : /\ Marked(s) => Marked(s)'
                     /\ snapshot'[s].unread => snapshot[s].unread \/ Marked(s)'

\* Such a step, if it also leaves the computation where it was, loses nothing.
LEMMA QuietStep ==
  ASSUME ChangeInv, SnapshotsStayMarked, LocalInvalidWhenOff',
         restart => restart', main'.isRunning = main.isRunning, step' = step,
         pc' \notin Leaving /\ isStepInProgress' => pc \notin Leaving /\ isStepInProgress,
         UNCHANGED computed, Works("compute")' = Works("compute"),
         exitCode'["compute"] = exitCode["compute"], computed \subseteq Sides
  PROVE  ChangeInv'
  <1>1. \A s \in Sides : Covered(s) => Covered(s)'
    BY DEF Covered, SnapshotsStayMarked
  <1>2. ReadIsCovered'
    BY <1>1 DEF ChangeInv, ReadIsCovered
  <1>3. NoChangeLost'
    BY DEF ChangeInv, NoChangeLost, SnapshotsStayMarked, Marked
  <1>4. QED
    BY <1>2, <1>3 DEF ChangeInv

\* What the writes of an observer do to the flags of its snapshot.
LEMMA SnapshotMarks ==
  ASSUME NEW f \in Snapshots, NEW b \in BOOLEAN
  PROVE  /\ Changed(f).updated /\ Changed(f).valid = f.valid
         /\ ~InvalidateSnapshot(f).valid
         /\ [f EXCEPT !.updating = b].valid = f.valid
         /\ [f EXCEPT !.updating = b].updated = f.updated
         /\ [f EXCEPT !.updating = b].unread = f.unread
         /\ [Changed(f) EXCEPT !.updating = b].updated
         /\ [Changed(f) EXCEPT !.updating = b].valid = f.valid
         /\ [Changed(f) EXCEPT !.valid = TRUE, !.updating = b].updated
         /\ ~InvalidateSnapshot([f EXCEPT !.updating = b]).valid
  BY DEF Snapshots, Changed, InvalidateSnapshot

\* What an observer does keeps the marks and the change invariant.
LEMMA ChangeStepOfObserver ==
  ASSUME TypeOK, ChangeInv, NEW s \in Sides, Observer(s)
  PROVE  ChangeInv' /\ SnapshotsStayMarked
  <1>1. /\ snapshot \in [Sides -> Snapshots] /\ snapshot[s] \in Snapshots
        /\ computed \subseteq Sides /\ "local" \in Sides
        /\ fso \in [Sides -> {"off", "running", "stopping"}]
    BY DEF TypeOK, Sides
  <1>2. \A b \in BOOLEAN :
          /\ Changed(snapshot[s]).updated /\ Changed(snapshot[s]).valid = snapshot[s].valid
          /\ ~InvalidateSnapshot(snapshot[s]).valid
          /\ [snapshot[s] EXCEPT !.updating = b].valid = snapshot[s].valid
          /\ [snapshot[s] EXCEPT !.updating = b].updated = snapshot[s].updated
          /\ [snapshot[s] EXCEPT !.updating = b].unread = snapshot[s].unread
          /\ [Changed(snapshot[s]) EXCEPT !.updating = b].updated
          /\ [Changed(snapshot[s]) EXCEPT !.valid = TRUE, !.updating = b].updated
    <2> TAKE b \in BOOLEAN
    <2>1. snapshot[s] \in Snapshots
      BY <1>1
    <2>2. QED
      BY <2>1 DEF Snapshots, Changed, InvalidateSnapshot
  <1>3. (snapshot[s].updating /\ snapshot[s].valid) \in BOOLEAN
    OBVIOUS
  <1>4. UNCHANGED <<mainVars, workVars, dataVars, restart>>
    BY DEF Observer, ObserverStartsSnapshot, ObserverEndsSnapshot, ObserverSeesChange,
       ObserverIsQuiet, ObserverInvalidates, ObserverFails, ObserverSeesStop
  <1>5. \A t \in Sides \ {s} : snapshot'[t] = snapshot[t] /\ fso'[t] = fso[t]
    BY <1>1 DEF Observer, ObserverStartsSnapshot, ObserverEndsSnapshot, ObserverSeesChange,
       ObserverIsQuiet, ObserverInvalidates, ObserverFails, ObserverSeesStop
  <1>6. /\ Marked(s) => Marked(s)'
        /\ snapshot'[s].unread => snapshot[s].unread \/ Marked(s)'
    <2>1. CASE ObserverStartsSnapshot(s) \/ ObserverEndsSnapshot(s) \/ ObserverSeesChange(s)
      BY <1>1, <1>2, <2>1
         DEF ObserverStartsSnapshot, ObserverEndsSnapshot, ObserverSeesChange, Marked
    <2>2. CASE ObserverIsQuiet(s) \/ ObserverFails(s)
      BY <1>1, <1>2, <1>3, <2>2 DEF ObserverIsQuiet, ObserverFails, Marked
    <2>3. CASE ObserverInvalidates(s) \/ ObserverSeesStop(s)
      BY <1>1, <1>2, <2>3 DEF ObserverInvalidates, ObserverSeesStop, Marked
    <2>4. QED
      BY <2>1, <2>2, <2>3 DEF Observer
  <1>7. s = "local" /\ fso'[s] = "off" => ~snapshot'[s].valid
    <2>1. CASE ObserverSeesStop(s)
      BY <1>1, <1>2, <2>1 DEF ObserverSeesStop
    <2>2. CASE ObserverFails(s)
      BY <1>1, <1>2, <1>3, <2>2 DEF ObserverFails
    <2>3. QED
      BY <2>1, <2>2 DEF Observer, ObserverStartsSnapshot, ObserverEndsSnapshot,
         ObserverSeesChange, ObserverIsQuiet, ObserverInvalidates
  <1>8. LocalInvalidWhenOff'
    BY <1>1, <1>5, <1>7 DEF ChangeInv, LocalInvalidWhenOff
  <1>9. SnapshotsStayMarked
    BY <1>5, <1>6 DEF SnapshotsStayMarked, Marked
  <1>10. QED
    BY <1>1, <1>4, <1>8, <1>9, QuietStep DEF mainVars, workVars, Works

\* The computation: what it reads is covered; what it gives up is unread again,
\* and then it has failed or the loop leaves the step.
LEMMA ChangeStepOfCompute ==
  ASSUME "compute" \notin SlowToEnd, TypeOK, LoopInv, ThreadInv, ChangeInv,
         \/ \E s \in Sides : ComputeReads(s)
         \/ \E code \in ExitCodes : ComputeEnds(code)
  PROVE  ChangeInv'
  <1>1. /\ snapshot \in [Sides -> Snapshots] /\ "compute" \in Workers /\ "local" \in Sides
        /\ exitCode \in [Workers -> ExitCodes] /\ worker \in [Workers -> Flags]
        /\ thread \in [Workers -> {"off", "run", "pausing", "paused"} \cup ExitCodes]
        /\ computed \subseteq Sides
    BY DEF TypeOK, Workers, Sides
  <1>2. ASSUME NEW s \in Sides, ComputeReads(s) PROVE ChangeInv'
    <2>1. /\ \A t \in Sides : /\ snapshot'[t].updated = snapshot[t].updated
                              /\ snapshot'[t].valid = snapshot[t].valid
                              /\ snapshot'[t].unread => snapshot[t].unread
          /\ ~snapshot'[s].unread
          /\ computed' = computed \cup {s}
          /\ UNCHANGED <<mainVars, worker, thread, exitCode, fso, restart>>
      BY <1>1, <1>2 DEF ComputeReads, Snapshots
    <2>2. LocalInvalidWhenOff' /\ NoChangeLost'
      BY <1>1, <2>1 DEF mainVars, ChangeInv, LocalInvalidWhenOff, NoChangeLost
    <2>3. ReadIsCovered'
      BY <1>1, <2>1 DEF mainVars, ChangeInv, ReadIsCovered, Covered, Marked, Works
    <2>4. QED
      BY <2>2, <2>3 DEF ChangeInv
  <1>3. ASSUME NEW code \in ExitCodes, ComputeEnds(code) PROVE ChangeInv'
    <2>1. /\ UNCHANGED <<mainVars, fso, restart>> /\ Works("compute") /\ ~Works("compute")'
          /\ exitCode'["compute"] = code
      BY <1>1, <1>3, EndOfWorker DEF ComputeEnds, Ends, Works
    <2>2. step = "UpdateDetection1"
      BY <1>1, <2>1 DEF LoopInv, WorkersOfStep, StepWorkers, Steps, TypeOK
    <2>3. \A t \in Sides : /\ snapshot'[t].updated = snapshot[t].updated
                           /\ snapshot'[t].valid = snapshot[t].valid
      BY <1>1, <1>3 DEF ComputeEnds, Snapshots
    <2>4. LocalInvalidWhenOff' /\ NoChangeLost'
      BY <1>1, <2>1, <2>2, <2>3 DEF mainVars, ChangeInv, LocalInvalidWhenOff, NoChangeLost
    <2>5. code = "Ok" /\ pc \notin Leaving => computed = Sides /\ snapshot' = snapshot
      BY <1>1, <1>3, <2>1 DEF ComputeEnds, ThreadInv, StopOnlyToLeave
    <2>6. ReadIsCovered'
      BY <2>1, <2>2, <2>5 DEF mainVars, ChangeInv, ReadIsCovered, Covered, Marked
    <2>7. QED
      BY <2>4, <2>6 DEF ChangeInv
  <1>4. QED
    BY <1>2, <1>3

\* What a worker does keeps the change invariant.
LEMMA ChangeStepOfWorker ==
  ASSUME "compute" \notin SlowToEnd, TypeOK, LoopInv, ThreadInv, ChangeInv,
         NEW w \in Workers, WorkerThread(w)
  PROVE  ChangeInv'
  <1>1. /\ snapshot \in [Sides -> Snapshots] /\ "compute" \in Workers
        /\ computed \subseteq Sides /\ "local" \in Sides /\ "remote" \in Sides
        /\ exitCode \in [Workers -> ExitCodes] /\ restart \in BOOLEAN
        /\ thread \in [Workers -> {"off", "run", "pausing", "paused"} \cup ExitCodes]
    BY DEF TypeOK, Workers, Sides
  <1>2. ASSUME UNCHANGED <<mainVars, fso, snapshot, computed>>, restart => restart',
               Works("compute")' = Works("compute"), exitCode'["compute"] = exitCode["compute"]
        PROVE  ChangeInv'
    BY <1>1, <1>2, QuietStep DEF mainVars, SnapshotsStayMarked, Marked, ChangeInv,
       LocalInvalidWhenOff
  <1>3. ASSUME NEW v \in Workers \ {"compute"}, NEW code \in ExitCodes, Ends(v, code)
        PROVE  /\ UNCHANGED <<mainVars, fso, computed>>
               /\ Works("compute")' = Works("compute")
               /\ exitCode'["compute"] = exitCode["compute"]
    BY <1>1, <1>3 DEF Ends, Works
  <1>4. CASE WorkerTestsPause(w) \/ WorkerPauses(w) \/ WorkerUnpauses(w) \/ WorkerLeavesPause(w)
    <2>1. /\ UNCHANGED <<mainVars, exitCode, computed, fso, snapshot, restart>>
          /\ Works("compute")' = Works("compute")
      BY <1>1, <1>4 DEF WorkerTestsPause, WorkerPauses, WorkerUnpauses, WorkerLeavesPause, Works
    <2>2. QED
      BY <1>2, <2>1
  <1>5. CASE WorkerWritesCode(w)
    <2>1. w # "compute"
      BY <1>5 DEF WorkerWritesCode, ThreadInv, OnlySlowHaveCodeLeft
    <2>2. QED
      BY <1>1, <1>2, <1>5, <2>1 DEF WorkerWritesCode, Works
  <1>6. ASSUME NEW code \in ExitCodes, TreeEnds(w, code) PROVE ChangeInv'
    BY <1>2, <1>3, <1>6 DEF TreeEnds, dataVars
  <1>7. CASE FinderEnds
    BY <1>2, <1>3, <1>7 DEF FinderEnds, Workers, ExitCodes
  <1>8. ASSUME NEW code \in ExitCodes, ResolverEnds(code) PROVE ChangeInv'
    BY <1>2, <1>3, <1>8 DEF ResolverEnds, Workers
  <1>9. ASSUME NEW code \in ExitCodes, GeneratorEnds(code) PROVE ChangeInv'
    <2>1. restart => restart'
      BY <1>1, <1>9 DEF GeneratorEnds
    <2>2. QED
      BY <1>2, <1>3, <1>9, <2>1 DEF GeneratorEnds, Workers
  <1>10. CASE SorterEnds
    <2>1. restart => restart'
      BY <1>1, <1>10 DEF SorterEnds
    <2>2. QED
      BY <1>2, <1>3, <1>10, <2>1 DEF SorterEnds, Workers, ExitCodes
  <1>11. ASSUME NEW code \in ExitCodes, ExecutorEnds(code) PROVE ChangeInv'
    <2>1. /\ UNCHANGED <<mainVars, fso, computed>>
          /\ Works("compute")' = Works("compute")
          /\ exitCode'["compute"] = exitCode["compute"]
      BY <1>3, <1>11 DEF ExecutorEnds, Workers
    <2>2. restart => restart'
      BY <1>1, <1>11 DEF ExecutorEnds
    <2>3. \A s \in Sides : /\ snapshot[s] \in Snapshots
                           /\ ~InvalidateSnapshot(snapshot[s]).valid
      BY <1>1, SnapshotMarks
    <2>4. \A s \in Sides : \/ ~snapshot'[s].valid
                           \/ /\ snapshot'[s].valid = snapshot[s].valid
                              /\ snapshot'[s].updated = snapshot[s].updated
                              /\ snapshot'[s].unread = snapshot[s].unread
      BY <1>1, <1>11, <2>3 DEF ExecutorEnds, Sides, Snapshots
    <2>5. SnapshotsStayMarked
      BY <2>4 DEF SnapshotsStayMarked, Marked
    <2>6. LocalInvalidWhenOff'
      BY <1>1, <2>1, <2>4 DEF ChangeInv, LocalInvalidWhenOff
    <2>7. QED
      BY <1>1, <2>1, <2>2, <2>5, <2>6, QuietStep DEF mainVars
  <1>12. QED
    BY <1>4, <1>5, <1>6, <1>7, <1>8, <1>9, <1>10, <1>11, ChangeStepOfCompute DEF WorkerThread

\* Every step keeps the change invariant.
LEMMA ChangeStep ==
  ASSUME "compute" \notin SlowToEnd
  PROVE  TypeOK /\ LoopInv /\ ThreadInv /\ ChangeInv /\ [Next]_vars => ChangeInv'
  <1> SUFFICES ASSUME TypeOK, LoopInv, ThreadInv, ChangeInv, [Next]_vars PROVE ChangeInv'
    OBVIOUS
  <1>1. /\ snapshot \in [Sides -> Snapshots] /\ "compute" \in Workers /\ "local" \in Sides
        /\ worker \in [Workers -> Flags] /\ main \in Flags /\ computed \subseteq Sides
        /\ exitCode \in [Workers -> ExitCodes] /\ step \in Steps /\ restart \in BOOLEAN
        /\ fso \in [Sides -> {"off", "running", "stopping"}]
        /\ thread \in [Workers -> {"off", "run", "pausing", "paused"} \cup ExitCodes]
    BY DEF TypeOK, Workers, Sides
  \* What the loop and the application do without touching the snapshots.
  <1>2. ASSUME UNCHANGED <<snapshot, restart, thread, exitCode, computed, step>>,
               fso["local"] # "off" => fso'["local"] # "off",
               fso'["local"] = "off" => fso["local"] = "off",
               main'.isRunning = main.isRunning,
               pc' \notin Leaving /\ isStepInProgress' => pc \notin Leaving /\ isStepInProgress
        PROVE  ChangeInv'
    BY <1>1, <1>2, QuietStep DEF SnapshotsStayMarked, Marked, Works, ChangeInv,
       LocalInvalidWhenOff
  <1>3. ASSUME NEW s \in Sides, Observer(s) PROVE ChangeInv'
    BY <1>3, ChangeStepOfObserver
  <1>4. ASSUME NEW w \in Workers, WorkerThread(w) PROVE ChangeInv'
    BY <1>4, ChangeStepOfWorker
  <1>5. CASE ExecutorAsksPause \/ ApiPause \/ ApiUnpause \/ ApiStop \/ ApiStopReturns
             \/ UNCHANGED vars
    <2>1. main'.isRunning = main.isRunning
      BY <1>1, <1>5, FlagsKept DEF ExecutorAsksPause, ApiPause, ApiUnpause, ApiStop,
         ApiStopReturns, vars, mainVars
    <2>2. UNCHANGED <<snapshot, restart, workVars, fso, pc, step, isStepInProgress>>
      BY <1>5 DEF ExecutorAsksPause, ApiPause, ApiUnpause, ApiStop, ApiStopReturns, vars, mainVars
    <2>3. QED
      BY <1>2, <2>1, <2>2 DEF workVars
  <1>6. CASE MainLoop
    <2>1. CASE CheckObservers
      <3>1. main'.isRunning = main.isRunning
        BY <1>1, <2>1, FlagsKept DEF CheckObservers
      <3>2. /\ UNCHANGED <<snapshot, restart, workVars, step, isStepInProgress>>
            /\ pc \notin Leaving /\ fso'["local"] = "off" => fso["local"] = "off"
        BY <1>1, <2>1 DEF CheckObservers, Leaving
      <3>3. fso["local"] # "off" => fso'["local"] # "off"
        BY <1>1, <2>1 DEF CheckObservers
      <3>4. pc \notin Leaving
        BY <2>1 DEF CheckObservers, Leaving
      <3>5. fso'["local"] = "off" => fso["local"] = "off"
        BY <1>1, <2>1 DEF CheckObservers
      <3>6. QED
        BY <1>2, <3>1, <3>2, <3>3, <3>4, <3>5 DEF workVars
    <2>2. CASE TestStop \/ AbortForNetwork \/ AbortAndRestart \/ AbortAndExit
      BY <1>1, <1>2, <2>2 DEF TestStop, AbortForNetwork, AbortAndRestart, AbortAndExit,
         LooksAtStep, StopObservers, Leaving
    <2>3. CASE TestPause \/ StepGoesOn
      BY <1>2, <2>3 DEF TestPause, StepGoesOn, LooksAtStep, workVars, Leaving
    <2>4. CASE PauseAllWorkers \/ UnpauseAllWorkers
      <3>1. main'.isRunning = main.isRunning
        BY <1>1, <2>4, FlagsKept DEF PauseAllWorkers, UnpauseAllWorkers
      <3>2. QED
        BY <1>2, <2>4, <3>1 DEF PauseAllWorkers, UnpauseAllWorkers, Leaving
    <2>5. CASE StartStep
      <3>1. ReadIsCovered'
        <4>1. CASE step = "UpdateDetection1"
          <5>1. Works("compute")' /\ computed' = {}
            BY <1>1, <2>5, <4>1 DEF StartStep, StepWorkers, Steps, Works
          <5>2. QED
            BY <5>1 DEF ReadIsCovered
        <4>2. QED
          BY <2>5, <4>1 DEF StartStep, ReadIsCovered
      <3>2. LocalInvalidWhenOff'
        BY <1>1, <2>5 DEF StartStep, ChangeInv, LocalInvalidWhenOff, Snapshots
      <3>3. NoChangeLost'
        BY <2>5 DEF StartStep, ChangeInv, NoChangeLost
      <3>4. QED
        BY <3>1, <3>2, <3>3 DEF ChangeInv
    <2>6. CASE AdvanceStep
      <3>1. step' = "UpdateDetection1" /\ isStepInProgress' => FALSE
        BY <1>1, <2>6 DEF AdvanceStep, NextStep, Steps
      <3>2. step = "UpdateDetection1" => \A s \in Sides : Covered(s)
        <4> SUFFICES ASSUME step = "UpdateDetection1" PROVE \A s \in Sides : Covered(s)
          OBVIOUS
        <4>1. "compute" \in StepWorkers[step]
          BY DEF StepWorkers, Steps
        <4>2. Read("compute") = "Ok"
          BY <2>6, <4>1 DEF AdvanceStep, Codes
        <4>3. exitCode["compute"] = "Ok" /\ ~Works("compute")
          BY <1>1, <4>1, <4>2 DEF Read, LoopInv, WorkersOfStep
        <4>4. QED
          BY <2>6, <4>3 DEF AdvanceStep, LooksAtStep, Leaving, ChangeInv, ReadIsCovered
      <3>3. UNCHANGED <<snapshot, main, fso>> /\ step' = NextStep /\ restart' = RestartAfter
        BY <2>6 DEF AdvanceStep
      <3>4. NoChangeLost'
        <4>1. CASE step = "UpdateDetection1"
          <5>1. mismatch \/ restart => restart'
            BY <3>3, <4>1 DEF RestartAfter, NextStep
          <5>2. QED
            BY <3>2, <3>3, <4>1, <5>1 DEF NoChangeLost, Covered, Marked
        <4>2. CASE step # "UpdateDetection1" /\ step' # "UpdateDetection1"
          <5>1. restart => restart'
            BY <3>3, <4>2 DEF RestartAfter
          <5>2. QED
            BY <3>3, <4>2, <5>1 DEF ChangeInv, NoChangeLost
        <4>3. QED
          BY <4>1, <4>2 DEF NoChangeLost
      <3>5. QED
        BY <3>1, <3>3, <3>4 DEF ChangeInv, ReadIsCovered, LocalInvalidWhenOff
    <2>7. CASE NetworkAborted
      BY <1>1, <1>2, <2>7, FlagsKept DEF NetworkAborted, workVars
    <2>8. CASE RestartAborted
      <3>1. \A s \in Sides : ~snapshot'[s].valid
        <4> TAKE s \in Sides
        <4>1. snapshot[s] \in Snapshots /\ (snapshot[s].updating \/ s = "remote") \in BOOLEAN
          BY <1>1
        <4>2. ~InvalidateSnapshot([snapshot[s] EXCEPT !.updating =
                                     snapshot[s].updating \/ s = "remote"]).valid
          BY <4>1, SnapshotMarks
        <4>3. QED
          BY <2>8, <4>2 DEF RestartAborted
      <3>2. QED
        BY <1>1, <2>8, <3>1 DEF RestartAborted, ChangeInv, LocalInvalidWhenOff, ReadIsCovered,
           NoChangeLost
    <2>9. CASE Exit
      BY <1>1, <2>9, FlagsKept DEF Exit, ChangeInv, LocalInvalidWhenOff, ReadIsCovered,
         NoChangeLost, Leaving
    <2>10. QED
      BY <1>6, <2>1, <2>2, <2>3, <2>4, <2>5, <2>6, <2>7, <2>8, <2>9 DEF MainLoop
  <1>7. CASE ApiStart
    <2>1. ~snapshot["local"].valid
      BY <1>1, <1>7 DEF ApiStart, LoopInv, AllStoppedOnExit, ChangeInv, LocalInvalidWhenOff
    <2>2. ~snapshot'["local"].valid
      BY <1>1, <1>7, <2>1 DEF ApiStart, Snapshots
    <2>3. QED
      BY <1>1, <1>7, <2>2 DEF ApiStart, ChangeInv, LocalInvalidWhenOff, ReadIsCovered, NoChangeLost
  <1>8. QED
    BY <1>3, <1>4, <1>5, <1>6, <1>7 DEF Next

\* ChangesAreSeen: no change a snapshot has received is forgotten, provided the
\* exit code of the computation is written before it is seen as ended.
THEOREM ChangesAreSeen == ASSUME "compute" \notin SlowToEnd PROVE Spec => []NoChangeLost
  <1>1. TypeOK /\ LoopInv /\ ThreadInv /\ ChangeInv /\ [Next]_vars => ChangeInv'
    BY ChangeStep
  <1>2. ChangeInv => NoChangeLost
    BY DEF ChangeInv
  <1>3. QED
    BY <1>1, <1>2, ChangeInit, TypeCorrect, LoopInvariant, ThreadInvariant, PTL DEF Spec

(***************************************************************************)
(* What a cycle leaves unpropagated is not forgotten. The argument: while  *)
(* the cycle goes on, a debt is among the computed operations, then in the *)
(* list, or a restart is asked; when the executor has succeeded a restart  *)
(* is asked; a network error pays the debt (README, section 10). A worker  *)
(* that is stopped ends with success too, but then the loop leaves the     *)
(* step for good. The workers that change the debt are assumed to write    *)
(* their exit code before they are seen as ended.                          *)
(***************************************************************************)
Debtors == {"compute", "generator", "executor"}

WorkIsInProgress == \A w \in Workers : Works(w) => isStepInProgress

Succeeded(w) == ~Works(w) /\ exitCode[w] = "Ok"

SuccessPays ==
    (debt /\ isStepInProgress /\ pc \notin Leaving) =>
        /\ step = "UpdateDetection1" /\ Succeeded("compute") => opsUpdated
        /\ step = "Reconciliation3" /\ ~Works("resolver") => restart
        /\ step = "Reconciliation4" /\ Succeeded("generator") => syncOps
        /\ step = "Propagation2" /\ Succeeded("executor") => restart

DebtIsListed ==
    debt =>
        /\ step = "Propagation1" => syncOps \/ restart
        /\ step = "Propagation2" /\ (~isStepInProgress \/ Works("executor")) => syncOps \/ restart

NetworkErrorPays ==
    (step = "Propagation2" /\ debt) =>
        /\ pc # "waitNetwork"
        /\ isStepInProgress /\ ~Works("executor") => exitCode["executor"] # "NetworkError"

DebtInv ==
    /\ WorkIsInProgress
    /\ SuccessPays
    /\ DebtIsListed
    /\ NetworkErrorPays
    /\ DebtIsRemembered

\* The debt invariant holds at the start.
LEMMA DebtInit == Init => DebtInv
  BY DEF Init, DebtInv, WorkIsInProgress, Works, SuccessPays, DebtIsListed, NetworkErrorPays,
     DebtIsRemembered

\* The workers the debt invariant speaks of, and the steps they belong to.
LEMMA DebtorsStep ==
  ASSUME TypeOK, LoopInv
  PROVE  /\ Works("compute") => step = "UpdateDetection1"
         /\ Works("resolver") => step = "Reconciliation3"
         /\ Works("generator") => step = "Reconciliation4"
         /\ Works("executor") => step = "Propagation2"
         /\ {"compute", "resolver", "generator", "executor"} \subseteq Workers
  <1>1. {"compute", "resolver", "generator", "executor"} \subseteq Workers
    BY DEF Workers
  <1>2. \A s \in Steps : "compute" \in StepWorkers[s] => s = "UpdateDetection1"
    BY DEF Steps, StepWorkers
  <1>3. step \in Steps
    BY DEF TypeOK
  <1>4. QED
    BY <1>1, <1>2, <1>3, StepTable DEF LoopInv, WorkersOfStep

\* A step that leaves the loop, those workers and what they make as they are, but
\* for a restart that is asked and a snapshot that is marked.
DebtUntouched ==
    /\ debt' = debt /\ opsUpdated' = opsUpdated /\ syncOps' = syncOps
    /\ restart => restart'
    /\ \A s \in Sides : Marked(s) => Marked(s)'
    /\ main'.isRunning = main.isRunning
    /\ \A w \in Debtors \cup {"resolver"} : Works(w)' = Works(w)
    /\ \A w \in Debtors : exitCode'[w] = exitCode[w]

LEMMA DebtQuietStep ==
  ASSUME DebtInv, DebtUntouched, UNCHANGED <<step, isStepInProgress>>,
         WorkIsInProgress', pc' = "waitNetwork" => pc = "waitNetwork",
         pc' \notin Leaving => pc \notin Leaving
  PROVE  DebtInv'
  <1>1. SuccessPays'
    BY DEF DebtInv, DebtUntouched, Debtors, SuccessPays, Succeeded
  <1>2. DebtIsListed'
    BY DEF DebtInv, DebtUntouched, Debtors, DebtIsListed
  <1>3. NetworkErrorPays'
    BY DEF DebtInv, DebtUntouched, Debtors, NetworkErrorPays
  <1>4. DebtIsRemembered'
    BY DEF DebtInv, DebtUntouched, DebtIsRemembered, Marked
  <1>5. QED
    BY <1>1, <1>2, <1>3, <1>4 DEF DebtInv

\* No worker starts by itself.
LEMMA WorkGoesOn ==
  ASSUME TypeOK, DebtInv, NEW w \in Workers, WorkerThread(w)
  PROVE  WorkIsInProgress'
  BY StepOfWorker DEF WorkerEffect, DebtInv, WorkIsInProgress

\* A worker that changes the debt writes its exit code as it ends.
LEMMA EndOfDebtor ==
  ASSUME Debtors \cap SlowToEnd = {}, TypeOK, LoopInv, NEW v \in Debtors,
         NEW code \in ExitCodes, Ends(v, code)
  PROVE  /\ UNCHANGED <<pc, step, isStepInProgress>>
         /\ Works(v) /\ ~Works(v)' /\ exitCode'[v] = code
  <1>1. v \in Workers /\ v \notin SlowToEnd /\ exitCode \in [Workers -> ExitCodes]
    BY DebtorsStep DEF TypeOK, Debtors
  <1>2. exitCode' = [exitCode EXCEPT ![v] = code]
    BY <1>1 DEF Ends
  <1>3. exitCode'[v] = code
    BY <1>1, <1>2
  <1>4. /\ UNCHANGED <<pc, step, isStepInProgress>> /\ thread[v] = "run" /\ ~Works(v)'
    BY <1>1, EndOfWorker
  <1>5. Works(v)
    BY <1>4 DEF Works
  <1>6. QED
    BY <1>3, <1>4, <1>5

\* The ends of the workers that change the debt.
LEMMA DebtOfCompute ==
  ASSUME Debtors \cap SlowToEnd = {}, TypeOK, LoopInv, ThreadInv, DebtInv, WorkIsInProgress',
         NEW code \in ExitCodes, ComputeEnds(code)
  PROVE  DebtInv'
  <1>1. "compute" \in Workers /\ exitCode \in [Workers -> ExitCodes]
    BY DebtorsStep DEF TypeOK
  <1>2. /\ UNCHANGED <<pc, step, isStepInProgress>> /\ Works("compute") /\ ~Works("compute")'
        /\ exitCode'["compute"] = code /\ step = "UpdateDetection1"
    BY <1>1, EndOfDebtor, DebtorsStep DEF ComputeEnds, Debtors
  <1>3. code = "Ok" /\ pc \notin Leaving => (debt' => opsUpdated')
    BY <1>1, <1>2 DEF ComputeEnds, ThreadInv, StopOnlyToLeave
  <1>4. SuccessPays'
    BY <1>2, <1>3 DEF SuccessPays, Succeeded
  <1>5. QED
    BY <1>2, <1>4 DEF DebtInv, DebtIsListed, NetworkErrorPays, DebtIsRemembered

LEMMA DebtOfResolver ==
  ASSUME TypeOK, LoopInv, DebtInv, WorkIsInProgress', NEW code \in ExitCodes, ResolverEnds(code)
  PROVE  DebtInv'
  <1>1. "resolver" \in Workers
    BY DebtorsStep
  <1>2. /\ UNCHANGED <<pc, step, isStepInProgress>> /\ step = "Reconciliation3" /\ restart'
    BY <1>1, EndOfWorker, DebtorsStep DEF ResolverEnds, Ends, Works, mainVars
  <1>3. QED
    BY <1>2 DEF DebtInv, SuccessPays, DebtIsListed, NetworkErrorPays, DebtIsRemembered

LEMMA DebtOfGenerator ==
  ASSUME Debtors \cap SlowToEnd = {}, TypeOK, LoopInv, ThreadInv, DebtInv, WorkIsInProgress',
         NEW code \in ExitCodes, GeneratorEnds(code)
  PROVE  DebtInv'
  <1>1. "generator" \in Workers /\ exitCode \in [Workers -> ExitCodes]
    BY DebtorsStep DEF TypeOK
  <1>2. /\ UNCHANGED <<pc, step, isStepInProgress>> /\ Works("generator") /\ ~Works("generator")'
        /\ exitCode'["generator"] = code /\ step = "Reconciliation4"
    BY <1>1, EndOfDebtor, DebtorsStep DEF GeneratorEnds, Debtors
  <1>3. code = "Ok" /\ pc \notin Leaving => (debt' => syncOps')
    BY <1>1, <1>2 DEF GeneratorEnds, ThreadInv, StopOnlyToLeave
  <1>4. SuccessPays'
    BY <1>2, <1>3 DEF SuccessPays, Succeeded
  <1>5. QED
    BY <1>2, <1>4 DEF DebtInv, DebtIsListed, NetworkErrorPays, DebtIsRemembered

LEMMA DebtOfExecutor ==
  ASSUME Debtors \cap SlowToEnd = {}, TypeOK, LoopInv, ThreadInv, DebtInv, WorkIsInProgress',
         NEW code \in ExitCodes, ExecutorEnds(code)
  PROVE  DebtInv'
  <1>1. "executor" \in Workers /\ exitCode \in [Workers -> ExitCodes] /\ restart \in BOOLEAN
    BY DebtorsStep DEF TypeOK
  <1>2. /\ UNCHANGED <<pc, step, isStepInProgress>> /\ Works("executor") /\ ~Works("executor")'
        /\ exitCode'["executor"] = code /\ step = "Propagation2"
    BY <1>1, EndOfDebtor, DebtorsStep DEF ExecutorEnds, Debtors
  <1>3. isStepInProgress /\ (restart => restart') /\ (debt' => debt)
    BY <1>1, <1>2 DEF DebtInv, WorkIsInProgress, ExecutorEnds
  <1>4. debt => syncOps \/ restart
    BY <1>2 DEF DebtInv, DebtIsListed
  <1>5. code = "Ok" /\ pc \notin Leaving => (debt' => restart')
    BY <1>1, <1>2, <1>3, <1>4 DEF ExecutorEnds, ThreadInv, StopOnlyToLeave
  <1>6. SuccessPays'
    BY <1>2, <1>5 DEF SuccessPays, Succeeded
  <1>7. code = "NetworkError" => ~debt'
    BY DEF ExecutorEnds
  <1>8. NetworkErrorPays'
    BY <1>2, <1>3, <1>7 DEF DebtInv, NetworkErrorPays
  <1>9. DebtIsListed'
    BY <1>2, <1>3 DEF DebtIsListed
  <1>10. QED
    BY <1>2, <1>6, <1>8, <1>9 DEF DebtInv, DebtIsRemembered

\* What any worker does keeps the debt invariant.
LEMMA DebtStepOfWorker ==
  ASSUME Debtors \cap SlowToEnd = {}, TypeOK, LoopInv, ThreadInv, DebtInv,
         NEW w \in Workers, WorkerThread(w)
  PROVE  DebtInv'
  <1>1. /\ snapshot \in [Sides -> Snapshots] /\ restart \in BOOLEAN
        /\ exitCode \in [Workers -> ExitCodes]
        /\ thread \in [Workers -> {"off", "run", "pausing", "paused"} \cup ExitCodes]
        /\ Debtors \cup {"resolver"} \subseteq Workers
        /\ {"off", "run", "pausing", "paused"} \cap ExitCodes = {}
    BY DebtorsStep DEF TypeOK, Debtors, ExitCodes, Errors
  <1>2. WorkIsInProgress'
    BY WorkGoesOn
  <1>3. ASSUME UNCHANGED <<mainVars, debt, opsUpdated, syncOps>>, restart => restart',
               \A s \in Sides : Marked(s) => Marked(s)',
               \A v \in Debtors \cup {"resolver"} : Works(v)' = Works(v),
               \A v \in Debtors : exitCode'[v] = exitCode[v]
        PROVE  DebtInv'
    BY <1>2, <1>3, DebtQuietStep DEF DebtUntouched, mainVars
  <1>4. CASE WorkerTestsPause(w) \/ WorkerPauses(w) \/ WorkerUnpauses(w) \/ WorkerLeavesPause(w)
    <2>1. /\ UNCHANGED <<mainVars, dataVars, exitCode, snapshot, restart>>
          /\ \A v \in Workers : Works(v)' = Works(v)
      BY <1>1, <1>4 DEF WorkerTestsPause, WorkerPauses, WorkerUnpauses, WorkerLeavesPause, Works
    <2>2. QED
      BY <1>1, <1>3, <2>1 DEF dataVars, Marked
  <1>5. CASE WorkerWritesCode(w)
    <2>1. w \notin Debtors
      BY <1>5 DEF WorkerWritesCode, ThreadInv, OnlySlowHaveCodeLeft
    <2>2. /\ UNCHANGED <<mainVars, dataVars, snapshot, restart>>
          /\ \A v \in Workers : Works(v)' = Works(v)
          /\ \A v \in Workers \ {w} : exitCode'[v] = exitCode[v]
      BY <1>1, <1>5 DEF WorkerWritesCode, Works
    <2>3. QED
      BY <1>1, <1>3, <2>1, <2>2 DEF dataVars, Marked
  <1>6. ASSUME NEW s \in Sides, ComputeReads(s) PROVE DebtInv'
    <2>1. \A t \in Sides : Marked(t) => Marked(t)'
      BY <1>1, <1>6 DEF ComputeReads, Marked, Snapshots
    <2>2. QED
      BY <1>3, <1>6, <2>1 DEF ComputeReads, dataVars, Works
  <1>7. ASSUME NEW v \in Workers \ (Debtors \cup {"resolver"}), NEW code \in ExitCodes,
               Ends(v, code), UNCHANGED <<debt, opsUpdated, syncOps, snapshot>>,
               restart => restart'
        PROVE  DebtInv'
    <2>1. \A u \in Workers \ {v} : Works(u)' = Works(u) /\ exitCode'[u] = exitCode[u]
      BY <1>1, <1>7 DEF Ends, Works
    <2>2. QED
      BY <1>1, <1>3, <1>7, <2>1 DEF Ends, Marked
  <1>8. {"localTree", "remoteTree", "platform", "finder", "sorter"}
           \subseteq Workers \ (Debtors \cup {"resolver"}) /\ "Ok" \in ExitCodes
    BY DEF Workers, Debtors, ExitCodes
  <1>9. ASSUME NEW code \in ExitCodes, TreeEnds(w, code) PROVE DebtInv'
    BY <1>7, <1>8, <1>9 DEF TreeEnds, dataVars
  <1>10. CASE FinderEnds
    BY <1>7, <1>8, <1>10 DEF FinderEnds
  <1>11. CASE SorterEnds
    <2>1. restart => restart'
      BY <1>1, <1>11 DEF SorterEnds
    <2>2. QED
      BY <1>7, <1>8, <1>11, <2>1 DEF SorterEnds, dataVars
  <1>12. QED
    BY <1>2, <1>4, <1>5, <1>6, <1>9, <1>10, <1>11, DebtOfCompute, DebtOfResolver,
       DebtOfGenerator, DebtOfExecutor DEF WorkerThread

\* The loop goes on: the debt goes with the cycle to its next step, or a restart is
\* asked where the cycle ends.
LEMMA DebtOfAdvance ==
  ASSUME Debtors \cap SlowToEnd = {}, TypeOK, LoopInv, DebtInv, AdvanceStep
  PROVE  DebtInv'
  <1>1. /\ step \in Steps /\ restart \in BOOLEAN /\ pc \notin Leaving /\ isStepInProgress
        /\ step' = NextStep /\ restart' = RestartAfter /\ pc' = "fso"
        /\ isStepInProgress' = (NextStep = step)
        /\ UNCHANGED <<main, dataVars, snapshot, worker, thread>>
    BY DEF TypeOK, AdvanceStep, LooksAtStep, Leaving
  <1>2. \A w \in Workers : ~Works(w) /\ ~Works(w)'
    BY <1>1, NobodyWorks DEF AdvanceStep, LoopInv, Works
  <1>3. \A w \in StepWorkers[step] : exitCode[w] = "Ok"
    BY DEF AdvanceStep, Codes, Read
  <1>4. /\ step = "UpdateDetection1" => "compute" \in StepWorkers[step]
        /\ step = "Reconciliation4" => "generator" \in StepWorkers[step]
        /\ step = "Propagation2" => "executor" \in StepWorkers[step]
    BY <1>1 DEF Steps, StepWorkers
  <1>5. debt =>
          /\ step = "UpdateDetection1" => opsUpdated
          /\ step = "Reconciliation3" => restart
          /\ step = "Reconciliation4" => syncOps
          /\ step = "Propagation1" => syncOps \/ restart
          /\ step = "Propagation2" => restart
    BY <1>1, <1>2, <1>3, <1>4, DebtorsStep DEF DebtInv, SuccessPays, Succeeded, DebtIsListed
  <1>6. NextStep # "UpdateDetection1" =>
          (restart \/ (step = "UpdateDetection1" /\ mismatch) => restart')
    BY <1>1 DEF RestartAfter
  <1>7. isStepInProgress' => step' = "Idle"
    BY <1>1 DEF NextStep, Steps
  <1>8. WorkIsInProgress' /\ SuccessPays' /\ NetworkErrorPays'
    BY <1>1, <1>2, <1>7 DEF WorkIsInProgress, SuccessPays, NetworkErrorPays
  <1>9. DebtIsListed'
    <2>1. step' = "Propagation1" => step \in {"Reconciliation3", "Reconciliation4"}
      BY <1>1 DEF NextStep, Steps
    <2>2. step' = "Propagation2" =>
             step \in {"Reconciliation3", "Reconciliation4", "Propagation1"}
      BY <1>1 DEF NextStep, Steps
    <2>3. UNCHANGED <<debt, syncOps>>
      BY <1>1 DEF dataVars
    <2>4. QED
      BY <1>1, <1>5, <1>6, <2>1, <2>2, <2>3 DEF DebtIsListed
  <1>10. DebtIsRemembered'
    <2> SUFFICES ASSUME debt', step' \in {"Idle", "Done"}, main.isRunning,
                        \A s \in Sides : ~Marked(s)
                 PROVE  restart'
      BY <1>1 DEF DebtIsRemembered, Marked
    <2>1. debt
      BY <1>1 DEF dataVars
    <2>2. NextStep # "UpdateDetection1"
      BY <1>1
    <2>3. step \in {"Idle", "Done"} => restart
      BY <2>1 DEF DebtInv, DebtIsRemembered, Marked
    <2>4. step = "UpdateDetection1" => mismatch
      BY <1>1, <1>5, <2>1 DEF NextStep
    <2>5. step \in {"Idle", "Done", "UpdateDetection1", "Propagation2"}
      BY <1>1 DEF NextStep, Steps
    <2>6. QED
      BY <1>5, <1>6, <2>1, <2>2, <2>3, <2>4, <2>5
  <1>11. QED
    BY <1>8, <1>9, <1>10 DEF DebtInv

\* A step that starts: its workers have not ended yet.
LEMMA DebtOfStart ==
  ASSUME TypeOK, LoopInv, DebtInv, StartStep
  PROVE  DebtInv'
  <1>1. /\ snapshot \in [Sides -> Snapshots] /\ step \in Steps
        /\ thread \in [Workers -> {"off", "run", "pausing", "paused"} \cup ExitCodes]
    BY DEF TypeOK
  <1>2. /\ ~isStepInProgress /\ isStepInProgress' /\ pc' = "fso"
        /\ UNCHANGED <<step, main, syncOps, debt, restart>>
    BY DEF StartStep
  <1>3. \A w \in Workers : w \in StepWorkers[step] => Works(w)'
    BY <1>1 DEF StartStep, Works
  <1>4. /\ step = "UpdateDetection1" => "compute" \in StepWorkers[step]
        /\ step = "Reconciliation3" => "resolver" \in StepWorkers[step]
        /\ step = "Reconciliation4" => "generator" \in StepWorkers[step]
        /\ step = "Propagation2" => "executor" \in StepWorkers[step]
    BY <1>1 DEF Steps, StepWorkers
  <1>5. SuccessPays' /\ NetworkErrorPays'
    BY <1>2, <1>3, <1>4, DebtorsStep DEF SuccessPays, Succeeded, NetworkErrorPays
  <1>6. DebtIsListed'
    BY <1>2 DEF DebtInv, DebtIsListed
  <1>7. DebtIsRemembered'
    <2>1. step # "UpdateDetection1" => snapshot' = snapshot
      BY DEF StartStep
    <2>2. QED
      BY <1>2, <2>1 DEF DebtInv, DebtIsRemembered
  <1>8. QED
    BY <1>2, <1>5, <1>6, <1>7 DEF DebtInv, WorkIsInProgress

\* Every step keeps the debt invariant.
LEMMA DebtStep ==
  ASSUME Debtors \cap SlowToEnd = {}
  PROVE  TypeOK /\ LoopInv /\ ThreadInv /\ ChangeInv /\ DebtInv /\ [Next]_vars => DebtInv'
  <1> SUFFICES ASSUME TypeOK, LoopInv, ThreadInv, ChangeInv, DebtInv, [Next]_vars PROVE DebtInv'
    OBVIOUS
  <1>1. /\ main \in Flags /\ "local" \in Sides /\ snapshot \in [Sides -> Snapshots]
        /\ Debtors \cup {"resolver"} \subseteq Workers
    BY DebtorsStep DEF TypeOK, Debtors, Sides
  <1>2. ASSUME UNCHANGED <<step, isStepInProgress, thread, exitCode, dataVars, restart>>,
               \A s \in Sides : Marked(s) => Marked(s)',
               main'.isRunning = main.isRunning,
               pc' = "waitNetwork" => pc = "waitNetwork",
               pc' \notin Leaving => pc \notin Leaving
        PROVE  DebtInv'
    <2>1. \A w \in Workers : Works(w)' = Works(w)
      BY <1>2 DEF Works
    <2>2. DebtUntouched
      BY <1>1, <1>2, <2>1 DEF DebtUntouched, dataVars
    <2>3. WorkIsInProgress'
      BY <1>2, <2>1 DEF DebtInv, WorkIsInProgress
    <2>4. QED
      BY <1>2, <2>2, <2>3, DebtQuietStep
  <1>3. ASSUME UNCHANGED <<step, isStepInProgress, thread, exitCode, dataVars, restart, snapshot>>,
               main'.isRunning = main.isRunning,
               pc' = "waitNetwork" => pc = "waitNetwork",
               pc' \notin Leaving => pc \notin Leaving
        PROVE  DebtInv'
    BY <1>2, <1>3 DEF Marked
  <1>4. ASSUME NEW s \in Sides, Observer(s) PROVE DebtInv'
    <2>1. UNCHANGED <<mainVars, workVars, dataVars, restart>>
      BY <1>4 DEF Observer, ObserverStartsSnapshot, ObserverEndsSnapshot, ObserverSeesChange,
         ObserverIsQuiet, ObserverInvalidates, ObserverFails, ObserverSeesStop
    <2>2. SnapshotsStayMarked
      BY <1>4, ChangeStepOfObserver
    <2>3. QED
      BY <1>2, <2>1, <2>2 DEF SnapshotsStayMarked, mainVars, workVars
  <1>5. ASSUME NEW w \in Workers, WorkerThread(w) PROVE DebtInv'
    BY <1>5, DebtStepOfWorker
  <1>6. CASE ExecutorAsksPause \/ ApiPause \/ ApiUnpause \/ ApiStop \/ ApiStopReturns
             \/ UNCHANGED vars
    <2>1. main'.isRunning = main.isRunning
      BY <1>1, <1>6, FlagsKept DEF ExecutorAsksPause, ApiPause, ApiUnpause, ApiStop,
         ApiStopReturns, vars, mainVars
    <2>2. UNCHANGED <<pc, step, isStepInProgress, thread, exitCode, dataVars, restart, snapshot>>
      BY <1>6 DEF ExecutorAsksPause, ApiPause, ApiUnpause, ApiStop, ApiStopReturns, vars,
         mainVars, workVars
    <2>3. QED
      BY <1>3, <2>1, <2>2
  <1>7. CASE MainLoop
    <2>1. CASE CheckObservers \/ TestPause \/ StepGoesOn \/ PauseAllWorkers \/ UnpauseAllWorkers
      <3>1. main'.isRunning = main.isRunning
        BY <1>1, <2>1, FlagsKept DEF CheckObservers, TestPause, StepGoesOn, PauseAllWorkers,
           UnpauseAllWorkers
      <3>2. /\ UNCHANGED <<step, isStepInProgress, thread, exitCode, dataVars, restart, snapshot>>
            /\ pc' # "waitNetwork" /\ pc \notin Leaving
        BY <2>1 DEF CheckObservers, TestPause, StepGoesOn, PauseAllWorkers, UnpauseAllWorkers,
           LooksAtStep, workVars, Leaving
      <3>3. QED
        BY <1>3, <3>1, <3>2
    <2>2. CASE TestStop \/ AbortAndRestart \/ AbortAndExit
      BY <1>3, <2>2 DEF TestStop, AbortAndRestart, AbortAndExit, LooksAtStep, Leaving
    <2>3. CASE AbortForNetwork
      <3>1. "NetworkError" \in Codes
        BY <2>3 DEF AbortForNetwork, FailsWith
      <3>2. step = "Propagation2" => ~debt
        <4> SUFFICES ASSUME step = "Propagation2" PROVE ~debt
          OBVIOUS
        <4>1. StepWorkers[step] = {"executor"}
          BY DEF StepWorkers, Steps
        <4>2. Read("executor") = "NetworkError"
          BY <3>1, <4>1 DEF Codes
        <4>3. exitCode["executor"] = "NetworkError" /\ ~Works("executor")
          BY <1>1, <4>2 DEF Read, Debtors, LoopInv, WorkersOfStep
        <4>4. QED
          BY <2>3, <4>3 DEF AbortForNetwork, LooksAtStep, DebtInv, NetworkErrorPays
      <3>3. UNCHANGED <<main, step, isStepInProgress, thread, exitCode, dataVars, snapshot, restart>>
            /\ pc' = "waitNetwork"
        BY <2>3 DEF AbortForNetwork
      <3>4. QED
        BY <3>2, <3>3 DEF DebtInv, WorkIsInProgress, Works, SuccessPays, DebtIsListed,
           NetworkErrorPays, DebtIsRemembered, Leaving, dataVars
    <2>4. CASE NetworkAborted
      <3>1. /\ UNCHANGED <<step, thread, exitCode, dataVars, snapshot, restart>>
            /\ ~isStepInProgress' /\ pc = "waitNetwork" /\ pc' = "fso"
        BY <2>4 DEF NetworkAborted, workVars
      <3>2. \A w \in Workers : ~Works(w)'
        BY <2>4, <3>1, NobodyWorks DEF NetworkAborted, LoopInv, Works
      <3>3. step = "Propagation2" => ~debt
        BY <3>1 DEF DebtInv, NetworkErrorPays
      <3>4. main'.isRunning = main.isRunning
        BY <1>1, <2>4, FlagsKept DEF NetworkAborted
      <3>5. QED
        BY <3>1, <3>2, <3>3, <3>4 DEF DebtInv, WorkIsInProgress, SuccessPays, DebtIsListed,
           NetworkErrorPays, DebtIsRemembered, dataVars
    <2>5. CASE RestartAborted
      <3>1. ~snapshot'["local"].valid
        <4>1. snapshot["local"] \in Snapshots /\ snapshot["local"].updating \in BOOLEAN
          BY <1>1 DEF Snapshots
        <4>2. ~InvalidateSnapshot([snapshot["local"] EXCEPT !.updating =
                                     snapshot["local"].updating]).valid
          BY <4>1, SnapshotMarks
        <4>3. snapshot'["local"] = InvalidateSnapshot([snapshot["local"] EXCEPT !.updating =
                                     snapshot["local"].updating])
          BY <1>1, <2>5, <4>1 DEF RestartAborted
        <4>4. QED
          BY <4>2, <4>3
      <3>2. \A w \in Workers : ~Works(w)'
        BY <2>5, NobodyWorks DEF RestartAborted, LoopInv, Works
      <3>3. QED
        BY <1>1, <2>5, <3>1, <3>2 DEF RestartAborted, DebtInv, WorkIsInProgress, SuccessPays,
           DebtIsListed, NetworkErrorPays, DebtIsRemembered
    <2>6. CASE Exit
      <3>1. ~main'.isRunning /\ pc' = "off"
        BY <1>1, <2>6, FlagsKept DEF Exit
      <3>2. UNCHANGED <<step, isStepInProgress, thread, exitCode, dataVars>>
        BY <2>6 DEF Exit, workVars
      <3>3. QED
        BY <2>6, <3>1, <3>2 DEF Exit, DebtInv, WorkIsInProgress, Works, SuccessPays, DebtIsListed,
           NetworkErrorPays, DebtIsRemembered, Leaving, dataVars
    <2>7. QED
      BY <1>7, <2>1, <2>2, <2>3, <2>4, <2>5, <2>6, DebtOfAdvance, DebtOfStart DEF MainLoop
  <1>8. CASE ApiStart
    <2>1. ~snapshot["local"].valid
      BY <1>1, <1>8 DEF ApiStart, LoopInv, AllStoppedOnExit, ChangeInv, LocalInvalidWhenOff
    <2>2. ~snapshot'["local"].valid
      BY <1>1, <1>8, <2>1 DEF ApiStart, Snapshots
    <2>3. \A w \in Workers : ~Works(w)'
      BY <1>8 DEF ApiStart, Works
    <2>4. QED
      BY <1>1, <1>8, <2>2, <2>3 DEF ApiStart, DebtInv, WorkIsInProgress, SuccessPays,
         DebtIsListed, NetworkErrorPays, DebtIsRemembered
  <1>9. QED
    BY <1>4, <1>5, <1>6, <1>7, <1>8 DEF Next

\* UnpaidIsRemembered: whatever is stopped, paused, aborted or restarted, a difference
\* that was computed and not propagated leaves a trace that starts another cycle,
\* provided the computation, the generator and the executor write their exit code
\* before they are seen as ended.
THEOREM UnpaidIsRemembered ==
  ASSUME Debtors \cap SlowToEnd = {} PROVE Spec => []DebtIsRemembered
  <1>1. TypeOK /\ LoopInv /\ ThreadInv /\ ChangeInv /\ [Next]_vars => ChangeInv'
    <2>1. "compute" \notin SlowToEnd
      BY DEF Debtors
    <2>2. QED
      BY <2>1, ChangeStep
  <1>2. TypeOK /\ LoopInv /\ ThreadInv /\ ChangeInv /\ DebtInv /\ [Next]_vars => DebtInv'
    BY DebtStep
  <1>3. DebtInv => DebtIsRemembered
    BY DEF DebtInv
  <1>4. QED
    BY <1>1, <1>2, <1>3, ChangeInit, DebtInit, TypeCorrect, LoopInvariant, ThreadInvariant, PTL
       DEF Spec

\* FailureLeavesCycle: the loop never goes on to the next step of the cycle
\* after a worker that has not succeeded, provided every exit code is written
\* before the end of the worker is seen.
THEOREM FailureLeavesCycle ==
  ASSUME SlowToEnd = {} PROVE Spec => FailedStepIsNotPassed
  <1>1. TypeOK /\ ThreadInv /\ [Next]_vars =>
          [step' \notin {step, "Idle"} => \A w \in StepWorkers[step] : Outcome(w) = "Ok"]_vars
    <2> SUFFICES ASSUME TypeOK, ThreadInv, [Next]_vars, step' \notin {step, "Idle"},
                        NEW w \in StepWorkers[step]
                 PROVE  Outcome(w) = "Ok"
      OBVIOUS
    <2>1. w \in Workers
      BY StepTable DEF TypeOK
    <2>2. AdvanceStep
      BY DEF Next, vars, MainLoop, CheckObservers, TestStop, TestPause, PauseAllWorkers,
         UnpauseAllWorkers, StartStep, StepGoesOn, AbortForNetwork, AbortAndRestart, AbortAndExit,
         NetworkAborted, RestartAborted, Exit, ApiStart, ApiPause, ApiUnpause, ApiStop,
         ApiStopReturns, ExecutorAsksPause, mainVars, Observer, ObserverStartsSnapshot,
         ObserverEndsSnapshot, ObserverSeesChange, ObserverIsQuiet, ObserverInvalidates,
         ObserverFails, ObserverSeesStop, WorkerThread, WorkerTestsPause, WorkerPauses,
         WorkerUnpauses, WorkerLeavesPause, WorkerWritesCode, TreeEnds, ComputeReads, ComputeEnds,
         FinderEnds, ResolverEnds, GeneratorEnds, SorterEnds, ExecutorEnds, Ends
    <2>3. Read(w) = "Ok"
      BY <2>2 DEF AdvanceStep, Codes
    <2>4. thread[w] \notin ExitCodes
      BY <2>1 DEF ThreadInv, OnlySlowHaveCodeLeft
    <2>5. QED
      BY <2>3, <2>4 DEF Read, Outcome
  <1>2. QED
    BY <1>1, TypeCorrect, ThreadInvariant, PTL DEF Spec, FailedStepIsNotPassed
=============================================================================
