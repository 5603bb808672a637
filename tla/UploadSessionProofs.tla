------------------------ MODULE UploadSessionProofs ------------------------
(***************************************************************************)
(* Proofs about UploadSession, for every number of chunks, of parallel     *)
(* jobs and of faults.                                                     *)
(***************************************************************************)
EXTENDS UploadSession, FiniteSetTheorems, TLAPS

USE UploadSessionAssumption DEF UploadSessionAssumption

(***************************************************************************)
(* The inductive invariant. _threadCounter is never lower than the number  *)
(* of chunk jobs that have not called back to the end (it is higher when   *)
(* the job manager has dropped aborted ones): the thread of the session    *)
(* that reads zero, reads the error and the abort flags afterwards, so it  *)
(* sees what the last callback has written before it decremented.          *)
(***************************************************************************)
Active == {n \in Chunks : chunk[n] \in {"queued", "running", "ok", "failed", "reported"}}

ActiveCounted == Cardinality(Active) <= counter

CounterBounded ==
    /\ counter <= next - 1
    /\ counter <= Parallel + 1
    /\ pc \in {"queued", "init", "start", "insert"} => counter = 0
    /\ pc = "loop" /\ ~aborted /\ ~jobError => counter <= Parallel

ChunksInOrder ==
    pc # "crashed" => \A n \in Chunks : chunk[n] = "none" <=> n >= next

CutIsAborted == cut # {} => aborted

SweepIsAborted ==
    \A t \in Threads : cancel[t] \in {"test", "set", "sweep", "request", "forget"} => aborted

Succeeds == pc # "crashed" /\ ~aborted /\ ~jobError

AnsweredIsReceived ==
    Succeeds => \A n \in Chunks : chunk[n] \in {"ok", "reported", "over"} => n \in received

AllSentIsReceived ==
    /\ pc = "waitAll" => next = TotalChunks + 1
    /\ pc = "sent" /\ Succeeds /\ ~readError => received = Chunks
    /\ pc = "close" => received = Chunks
    /\ FinishedIsComplete

ChunkInv ==
    /\ ActiveCounted
    /\ CounterBounded
    /\ ChunksInOrder
    /\ CutIsAborted
    /\ SweepIsAborted
    /\ AnsweredIsReceived
    /\ AllSentIsReceived

(***************************************************************************)
(* The invariant of the token: who is about to delete it knows that the    *)
(* session is not open any more, and nothing opens it again.               *)
(***************************************************************************)
StartedAfterInsert ==
    pc \in {"queued", "init", "start", "insert"} => ~started

CancelsStarted ==
    \A t \in Threads : cancel[t] \in {"set", "sweep", "request", "forget"} => started

DeletesClosed ==
    /\ pc = "delete" => server # "open"
    /\ \A t \in Threads : cancel[t] = "forget" => server # "open"
    /\ cleaner = "delete" => server # "open" /\ pc \in {"end", "crashed"}

TokenInv ==
    /\ StartedAfterInsert
    /\ CancelsStarted
    /\ DeletesClosed

\* Sets of chunks are finite.
LEMMA ActiveSet ==
  ASSUME NEW S, S \subseteq Chunks
  PROVE  IsFiniteSet(S) /\ Cardinality(S) \in Nat
  <1>1. IsFiniteSet(Chunks)
    BY FS_Interval DEF Chunks
  <1>2. QED
    BY <1>1, FS_Subset, FS_CardinalityType

\* A subset of the chunks has no more elements.
LEMMA FewerActive ==
  ASSUME NEW S, NEW T, S \subseteq T, T \subseteq Chunks
  PROVE  Cardinality(S) <= Cardinality(T)
  <1>1. S \in SUBSET T
    OBVIOUS
  <1>2. QED
    BY <1>1, ActiveSet, FS_Subset

\* A job that is active is one the counter counts.
LEMMA ActiveLess ==
  ASSUME TypeOK, ActiveCounted, NEW n \in Active
  PROVE  counter >= 1 /\ counter > Cardinality(Active \ {n})
  <1>1. IsFiniteSet(Active) /\ Cardinality(Active) \in Nat
    BY ActiveSet DEF Active
  <1>2. Cardinality(Active \ {n}) = Cardinality(Active) - 1 /\ Cardinality(Active \ {n}) \in Nat
    BY <1>1, FS_RemoveElement, FS_CardinalityType
  <1>3. QED
    BY <1>1, <1>2 DEF ActiveCounted, TypeOK

\* Only the counter needs more than the types: it is decremented for a job it
\* has counted, and never exceeds the number of chunks queued.
LEMMA TypeInit ==
  ASSUME Init
  PROVE  TypeOK
  <1>1. chunk \in [Chunks -> {"none", "queued", "running", "ok", "failed", "reported", "over"}]
    BY DEF Init
  <1>2. cancel \in [Threads -> {"no", "test", "set", "sweep", "request", "forget", "done"}]
    BY DEF Init
  <1>3. /\ token \in BOOLEAN /\ recorded \in BOOLEAN /\ readError \in BOOLEAN
        /\ aborted \in BOOLEAN /\ started \in BOOLEAN /\ cancelled \in BOOLEAN
        /\ jobError \in BOOLEAN
    BY DEF Init
  <1>4. QED
    BY <1>1, <1>2, <1>3 DEF Init, TypeOK

\* Every step keeps the types.
LEMMA TypeStep ==
  ASSUME TypeOK, ActiveCounted, CounterBounded, [Next]_vars
  PROVE  TypeOK'
  <1>1. CASE SessionRuns
    BY <1>1 DEF TypeOK, SessionRuns, remoteVars, chunkVars, flagVars
  <1>2. CASE QueueChunk
    <2>1. next \in Chunks /\ counter + 1 \in 0..TotalChunks
      BY <1>2 DEF TypeOK, QueueChunk, Chunks, CounterBounded
    <2>2. counter' \in 0..TotalChunks /\ ongoing' \subseteq Chunks
      BY <1>2, <2>1 DEF TypeOK, QueueChunk
    <2>3. chunk' \in [Chunks -> {"none", "queued", "running", "ok", "failed", "reported", "over"}]
      BY <1>2 DEF TypeOK, QueueChunk
    <2>4. next' \in 1..(TotalChunks + 1) /\ pc' = "wait"
      BY <1>2, <2>1 DEF QueueChunk, Chunks
    <2>5. QED
      BY <1>2, <2>2, <2>3, <2>4 DEF TypeOK, QueueChunk, remoteVars, chunkVars, flagVars
  <1>3. CASE ReadFails
    BY <1>3 DEF TypeOK, ReadFails, Fault, remoteVars, chunkVars, flagVars
  <1>4. CASE LeaveLoop
    BY <1>4 DEF TypeOK, LeaveLoop, remoteVars, chunkVars, flagVars
  <1>5. CASE WaitForJobsToComplete
    BY <1>5 DEF TypeOK, WaitForJobsToComplete, LeavesWait, remoteVars, chunkVars, flagVars
  <1>6. CASE SendChunksReturns
    BY <1>6 DEF TypeOK, SendChunksReturns, remoteVars, chunkVars, flagVars
  <1>7. CASE CloseRefused
    BY <1>7 DEF TypeOK, CloseRefused, remoteVars, chunkVars, flagVars
  <1>8. CASE SessionAborts
    BY <1>8 DEF TypeOK, SessionAborts, Threads, remoteVars, chunkVars, flagVars
  <1>9. CASE SessionEnds
    BY <1>9 DEF TypeOK, SessionEnds, remoteVars, chunkVars, flagVars
  <1>10. ASSUME NEW ok \in BOOLEAN, InitChunks(ok) PROVE TypeOK'
    BY <1>10 DEF TypeOK, InitChunks, GoesTo, Fault, remoteVars, chunkVars, flagVars
  <1>11. ASSUME NEW ok \in BOOLEAN, InsertToken(ok) PROVE TypeOK'
    <2>1. token' \in BOOLEAN /\ recorded' \in BOOLEAN /\ started' \in BOOLEAN
      BY <1>11 DEF TypeOK, InsertToken
    <2>2. pc' \in {"loop", "abort"} /\ exit' \in {"Unknown", "Ok", "Error"}
      BY <1>11 DEF TypeOK, InsertToken, GoesTo
    <2>3. faults' \in 0..MaxFaults
      BY <1>11 DEF TypeOK, InsertToken, Fault
    <2>4. QED
      BY <1>11, <2>1, <2>2, <2>3 DEF TypeOK, InsertToken, remoteVars, chunkVars, flagVars
  <1>12. ASSUME NEW ok \in BOOLEAN, DeleteToken(ok) PROVE TypeOK'
    <2>1. token' \in BOOLEAN
      BY <1>12 DEF TypeOK, DeleteToken
    <2>2. pc' \in {"end", "abort"} /\ exit' \in {"Unknown", "Ok", "Error"}
      BY <1>12 DEF TypeOK, DeleteToken, GoesTo
    <2>3. faults' \in 0..MaxFaults
      BY <1>12 DEF TypeOK, DeleteToken, Fault
    <2>4. QED
      BY <1>12, <2>1, <2>2, <2>3 DEF TypeOK, DeleteToken, remoteVars, chunkVars, flagVars
  <1>13. ASSUME NEW answer \in Answers, StartSession(answer) PROVE TypeOK'
    BY <1>13 DEF TypeOK, StartSession, Costs, Fault, remoteVars, chunkVars, flagVars
  <1>14. ASSUME NEW answer \in Answers, CloseSession(answer) PROVE TypeOK'
    BY <1>14 DEF TypeOK, CloseSession, Costs, Fault, remoteVars, chunkVars, flagVars
  <1>15. CASE ExecutorAborts
    BY <1>15 DEF TypeOK, ExecutorAborts, Threads, remoteVars, chunkVars, flagVars
  <1>16. CASE CleanDeletes
    <2>1. token' \in BOOLEAN /\ cleaner' \in {"idle", "delete"}
      BY <1>16 DEF CleanDeletes
    <2>2. QED
      BY <1>16, <2>1 DEF TypeOK, CleanDeletes, remoteVars, chunkVars, flagVars
  <1>17. ASSUME NEW answer \in Answers, CleanCancels(answer) PROVE TypeOK'
    BY <1>17 DEF TypeOK, CleanCancels, Costs, Fault, Quiet, remoteVars, chunkVars, flagVars
  <1>18. CASE Crash
    BY <1>18 DEF TypeOK, Crash, Fault, remoteVars, chunkVars, flagVars
  <1>19. ASSUME NEW t \in Threads, CancelTest(t) PROVE TypeOK'
    BY <1>19 DEF TypeOK, CancelTest, remoteVars, chunkVars, flagVars
  <1>20. ASSUME NEW t \in Threads, CancelSet(t) PROVE TypeOK'
    BY <1>20 DEF TypeOK, CancelSet, remoteVars, chunkVars, flagVars
  <1>21. ASSUME NEW t \in Threads, CancelChunks(t) PROVE TypeOK'
    BY <1>21 DEF TypeOK, CancelChunks, remoteVars, chunkVars, flagVars
  <1>22. ASSUME NEW t \in Threads, CancelRefused(t) PROVE TypeOK'
    BY <1>22 DEF TypeOK, CancelRefused, remoteVars, chunkVars, flagVars
  <1>23. ASSUME NEW t \in Threads, NEW answer \in Answers, CancelRequest(t, answer)
         PROVE TypeOK'
    BY <1>23 DEF TypeOK, CancelRequest, Costs, Fault, remoteVars, chunkVars, flagVars
  <1>24. ASSUME NEW t \in Threads, NEW ok \in BOOLEAN, CancelForgets(t, ok) PROVE TypeOK'
    <2>1. token' \in BOOLEAN
      BY <1>24 DEF TypeOK, CancelForgets
    <2>2. exit' \in {"Unknown", "Ok", "Error"}
      BY <1>24 DEF TypeOK, CancelForgets
    <2>3. cancel' \in [Threads -> {"no", "test", "set", "sweep", "request", "forget", "done"}]
      BY <1>24 DEF TypeOK, CancelForgets
    <2>4. faults' \in 0..MaxFaults
      BY <1>24 DEF TypeOK, CancelForgets, Fault
    <2>5. QED
      BY <1>24, <2>1, <2>2, <2>3, <2>4 DEF TypeOK, CancelForgets, remoteVars, chunkVars,
         flagVars
  <1>25. ASSUME NEW n \in Chunks, ChunkStarts(n) PROVE TypeOK'
    BY <1>25 DEF TypeOK, ChunkStarts, remoteVars, chunkVars, flagVars
  <1>26. ASSUME NEW n \in Chunks, NEW answer \in Answers, ChunkAnswered(n, answer) PROVE TypeOK'
    BY <1>26 DEF TypeOK, ChunkAnswered, Costs, Fault, remoteVars, chunkVars, flagVars
  <1>27. ASSUME NEW n \in Chunks, ChunkReports(n) PROVE TypeOK'
    <2>1. ongoing' \subseteq Chunks
      BY <1>27 DEF TypeOK, ChunkReports
    <2>2. jobError' \in BOOLEAN /\ exit' \in {"Unknown", "Ok", "Error"}
      BY <1>27 DEF TypeOK, ChunkReports
    <2>3. chunk' \in [Chunks -> {"none", "queued", "running", "ok", "failed", "reported", "over"}]
      BY <1>27 DEF TypeOK, ChunkReports
    <2>4. QED
      BY <1>27, <2>1, <2>2, <2>3 DEF TypeOK, ChunkReports, remoteVars, chunkVars, flagVars
  <1>28. ASSUME NEW n \in Chunks, ChunkLeaves(n) PROVE TypeOK'
    <2>1. n \in Active
      BY <1>28 DEF ChunkLeaves, Active
    <2>2. counter >= 1
      BY <2>1, ActiveLess DEF TypeOK
    <2>3. counter' \in 0..TotalChunks
      BY <1>28, <2>2 DEF TypeOK, ChunkLeaves
    <2>4. chunk' \in [Chunks -> {"none", "queued", "running", "ok", "failed", "reported", "over"}]
      BY <1>28 DEF TypeOK, ChunkLeaves
    <2>5. QED
      BY <1>28, <2>3, <2>4 DEF TypeOK, ChunkLeaves, remoteVars, chunkVars, flagVars
  <1>29. CASE UNCHANGED vars
    BY <1>29 DEF TypeOK, vars, remoteVars, chunkVars, flagVars
  <1>30. QED
    BY <1>1, <1>2, <1>3, <1>4, <1>5, <1>6, <1>7, <1>8, <1>9, <1>10, <1>11, <1>12, <1>13, <1>14,
       <1>15, <1>16, <1>17, <1>18, <1>19, <1>20, <1>21, <1>22, <1>23, <1>24, <1>25, <1>26,
       <1>27, <1>28, <1>29 DEF Next, Session, Cleaner, CancelSession, ChunkJob

\* Steps that touch neither the chunks nor their number: no flag is ever reset.
KeepsChunks ==
    /\ UNCHANGED <<chunk, counter, next, received>>
    /\ aborted => aborted'
    /\ jobError => jobError'
    /\ pc = "crashed" => pc' = "crashed"

ChunkStep ==
    \/ KeepsChunks \/ QueueChunk \/ Crash
    \/ \E n \in Chunks : ChunkJob(n)

\* Every step keeps the chunks, except those named.
LEMMA OnlyChunkSteps ==
  ASSUME TypeOK, [Next]_vars
  PROVE  ChunkStep
  <1>1. CASE SessionRuns
    BY <1>1 DEF KeepsChunks, ChunkStep, SessionRuns, remoteVars, chunkVars, flagVars
  <1>2. CASE QueueChunk
    BY <1>2 DEF ChunkStep
  <1>3. CASE ReadFails
    BY <1>3 DEF KeepsChunks, ChunkStep, ReadFails, Fault, remoteVars, chunkVars, flagVars
  <1>4. CASE LeaveLoop
    BY <1>4 DEF KeepsChunks, ChunkStep, LeaveLoop, remoteVars, chunkVars, flagVars
  <1>5. CASE WaitForJobsToComplete
    BY <1>5 DEF KeepsChunks, ChunkStep, WaitForJobsToComplete, LeavesWait, remoteVars,
       chunkVars, flagVars
  <1>6. CASE SendChunksReturns
    BY <1>6 DEF KeepsChunks, ChunkStep, SendChunksReturns, remoteVars, chunkVars, flagVars
  <1>7. CASE CloseRefused
    BY <1>7 DEF KeepsChunks, ChunkStep, CloseRefused, remoteVars, chunkVars, flagVars
  <1>8. CASE SessionAborts
    BY <1>8 DEF KeepsChunks, ChunkStep, SessionAborts, Threads, remoteVars, chunkVars, flagVars
  <1>9. CASE SessionEnds
    BY <1>9 DEF KeepsChunks, ChunkStep, SessionEnds, remoteVars, chunkVars, flagVars
  <1>10. ASSUME NEW ok \in BOOLEAN, InitChunks(ok) PROVE ChunkStep
    BY <1>10 DEF KeepsChunks, ChunkStep, InitChunks, GoesTo, Fault, remoteVars, chunkVars,
       flagVars
  <1>11. ASSUME NEW ok \in BOOLEAN, InsertToken(ok) PROVE ChunkStep
    BY <1>11 DEF KeepsChunks, ChunkStep, InsertToken, GoesTo, Fault, remoteVars, chunkVars,
       flagVars
  <1>12. ASSUME NEW ok \in BOOLEAN, DeleteToken(ok) PROVE ChunkStep
    BY <1>12 DEF KeepsChunks, ChunkStep, DeleteToken, GoesTo, Fault, remoteVars, chunkVars,
       flagVars
  <1>13. ASSUME NEW answer \in Answers, StartSession(answer) PROVE ChunkStep
    BY <1>13 DEF KeepsChunks, ChunkStep, StartSession, Costs, Fault, remoteVars, chunkVars,
       flagVars
  <1>14. ASSUME NEW answer \in Answers, CloseSession(answer) PROVE ChunkStep
    BY <1>14 DEF KeepsChunks, ChunkStep, CloseSession, Costs, Fault, remoteVars, chunkVars,
       flagVars
  <1>15. CASE ExecutorAborts
    BY <1>15 DEF KeepsChunks, ChunkStep, ExecutorAborts, Threads, remoteVars, chunkVars,
       flagVars
  <1>16. CASE CleanDeletes
    BY <1>16 DEF KeepsChunks, ChunkStep, CleanDeletes, remoteVars, chunkVars, flagVars
  <1>17. ASSUME NEW answer \in Answers, CleanCancels(answer) PROVE ChunkStep
    BY <1>17 DEF KeepsChunks, ChunkStep, CleanCancels, Costs, Fault, Quiet, remoteVars,
       chunkVars, flagVars
  <1>18. CASE Crash
    BY <1>18 DEF ChunkStep
  <1>19. ASSUME NEW t \in Threads, CancelTest(t) PROVE ChunkStep
    BY <1>19 DEF KeepsChunks, ChunkStep, CancelTest, remoteVars, chunkVars, flagVars
  <1>20. ASSUME NEW t \in Threads, CancelSet(t) PROVE ChunkStep
    BY <1>20 DEF KeepsChunks, ChunkStep, CancelSet, remoteVars, chunkVars, flagVars
  <1>21. ASSUME NEW t \in Threads, CancelChunks(t) PROVE ChunkStep
    BY <1>21 DEF KeepsChunks, ChunkStep, CancelChunks, remoteVars, chunkVars, flagVars
  <1>22. ASSUME NEW t \in Threads, CancelRefused(t) PROVE ChunkStep
    BY <1>22 DEF KeepsChunks, ChunkStep, CancelRefused, remoteVars, chunkVars, flagVars
  <1>23. ASSUME NEW t \in Threads, NEW answer \in Answers, CancelRequest(t, answer)
         PROVE ChunkStep
    BY <1>23 DEF KeepsChunks, ChunkStep, CancelRequest, Costs, Fault, remoteVars, chunkVars,
       flagVars
  <1>24. ASSUME NEW t \in Threads, NEW ok \in BOOLEAN, CancelForgets(t, ok) PROVE ChunkStep
    BY <1>24 DEF KeepsChunks, ChunkStep, CancelForgets, Fault, remoteVars, chunkVars, flagVars
  <1>25. ASSUME NEW n \in Chunks, ChunkStarts(n) PROVE ChunkStep
    BY <1>25 DEF ChunkStep, ChunkJob
  <1>26. ASSUME NEW n \in Chunks, NEW answer \in Answers, ChunkAnswered(n, answer)
         PROVE ChunkStep
    BY <1>26 DEF ChunkStep, ChunkJob
  <1>27. ASSUME NEW n \in Chunks, ChunkReports(n) PROVE ChunkStep
    BY <1>27 DEF ChunkStep, ChunkJob
  <1>28. ASSUME NEW n \in Chunks, ChunkLeaves(n) PROVE ChunkStep
    BY <1>28 DEF ChunkStep, ChunkJob
  <1>29. CASE UNCHANGED vars
    BY <1>29 DEF KeepsChunks, ChunkStep, vars, remoteVars, chunkVars, flagVars
  <1>30. QED
    BY <1>1, <1>2, <1>3, <1>4, <1>5, <1>6, <1>7, <1>8, <1>9, <1>10, <1>11, <1>12, <1>13, <1>14,
       <1>15, <1>16, <1>17, <1>18, <1>19, <1>20, <1>21, <1>22, <1>23, <1>24, <1>25, <1>26,
       <1>27, <1>28, <1>29 DEF Next, Session, Cleaner, CancelSession, ChunkJob

\* The counter stays within the number of chunks queued and of threads.
LEMMA BoundStep ==
  ASSUME TypeOK, ActiveCounted, CounterBounded, [Next]_vars
  PROVE  CounterBounded'
  <1>1. CASE SessionRuns
    BY <1>1 DEF TypeOK, CounterBounded, SessionRuns, remoteVars, chunkVars, flagVars
  <1>2. CASE QueueChunk
    BY <1>2 DEF TypeOK, CounterBounded, QueueChunk, remoteVars, chunkVars, flagVars
  <1>3. CASE ReadFails
    BY <1>3 DEF TypeOK, CounterBounded, ReadFails, Fault, remoteVars, chunkVars, flagVars
  <1>4. CASE LeaveLoop
    BY <1>4 DEF TypeOK, CounterBounded, LeaveLoop, remoteVars, chunkVars, flagVars
  <1>5. CASE WaitForJobsToComplete
    BY <1>5 DEF TypeOK, CounterBounded, WaitForJobsToComplete, LeavesWait, remoteVars,
       chunkVars, flagVars
  <1>6. CASE SendChunksReturns
    BY <1>6 DEF TypeOK, CounterBounded, SendChunksReturns, remoteVars, chunkVars, flagVars
  <1>7. CASE CloseRefused
    BY <1>7 DEF TypeOK, CounterBounded, CloseRefused, remoteVars, chunkVars, flagVars
  <1>8. CASE SessionAborts
    BY <1>8 DEF TypeOK, CounterBounded, SessionAborts, Threads, remoteVars, chunkVars, flagVars
  <1>9. CASE SessionEnds
    BY <1>9 DEF TypeOK, CounterBounded, SessionEnds, remoteVars, chunkVars, flagVars
  <1>10. ASSUME NEW ok \in BOOLEAN, InitChunks(ok) PROVE CounterBounded'
    BY <1>10 DEF TypeOK, CounterBounded, InitChunks, GoesTo, Fault, remoteVars, chunkVars,
       flagVars
  <1>11. ASSUME NEW ok \in BOOLEAN, InsertToken(ok) PROVE CounterBounded'
    BY <1>11 DEF TypeOK, CounterBounded, InsertToken, GoesTo, Fault, remoteVars, chunkVars,
       flagVars
  <1>12. ASSUME NEW ok \in BOOLEAN, DeleteToken(ok) PROVE CounterBounded'
    BY <1>12 DEF TypeOK, CounterBounded, DeleteToken, GoesTo, Fault, remoteVars, chunkVars,
       flagVars
  <1>13. ASSUME NEW answer \in Answers, StartSession(answer) PROVE CounterBounded'
    BY <1>13 DEF TypeOK, CounterBounded, StartSession, Costs, Fault, remoteVars, chunkVars,
       flagVars
  <1>14. ASSUME NEW answer \in Answers, CloseSession(answer) PROVE CounterBounded'
    BY <1>14 DEF TypeOK, CounterBounded, CloseSession, Costs, Fault, remoteVars, chunkVars,
       flagVars
  <1>15. CASE ExecutorAborts
    BY <1>15 DEF TypeOK, CounterBounded, ExecutorAborts, Threads, remoteVars, chunkVars,
       flagVars
  <1>16. CASE CleanDeletes
    BY <1>16 DEF TypeOK, CounterBounded, CleanDeletes, remoteVars, chunkVars, flagVars
  <1>17. ASSUME NEW answer \in Answers, CleanCancels(answer) PROVE CounterBounded'
    BY <1>17 DEF TypeOK, CounterBounded, CleanCancels, Costs, Fault, Quiet, remoteVars,
       chunkVars, flagVars
  <1>18. CASE Crash
    BY <1>18 DEF TypeOK, CounterBounded, Crash, Fault, remoteVars, chunkVars, flagVars
  <1>19. ASSUME NEW t \in Threads, CancelTest(t) PROVE CounterBounded'
    BY <1>19 DEF TypeOK, CounterBounded, CancelTest, remoteVars, chunkVars, flagVars
  <1>20. ASSUME NEW t \in Threads, CancelSet(t) PROVE CounterBounded'
    BY <1>20 DEF TypeOK, CounterBounded, CancelSet, remoteVars, chunkVars, flagVars
  <1>21. ASSUME NEW t \in Threads, CancelChunks(t) PROVE CounterBounded'
    BY <1>21 DEF TypeOK, CounterBounded, CancelChunks, remoteVars, chunkVars, flagVars
  <1>22. ASSUME NEW t \in Threads, CancelRefused(t) PROVE CounterBounded'
    BY <1>22 DEF TypeOK, CounterBounded, CancelRefused, remoteVars, chunkVars, flagVars
  <1>23. ASSUME NEW t \in Threads, NEW answer \in Answers, CancelRequest(t, answer)
         PROVE CounterBounded'
    BY <1>23 DEF TypeOK, CounterBounded, CancelRequest, Costs, Fault, remoteVars, chunkVars,
       flagVars
  <1>24. ASSUME NEW t \in Threads, NEW ok \in BOOLEAN, CancelForgets(t, ok)
         PROVE CounterBounded'
    BY <1>24 DEF TypeOK, CounterBounded, CancelForgets, Fault, remoteVars, chunkVars, flagVars
  <1>25. ASSUME NEW n \in Chunks, ChunkStarts(n) PROVE CounterBounded'
    BY <1>25 DEF TypeOK, CounterBounded, ChunkStarts, remoteVars, chunkVars, flagVars
  <1>26. ASSUME NEW n \in Chunks, NEW answer \in Answers, ChunkAnswered(n, answer)
         PROVE CounterBounded'
    BY <1>26 DEF TypeOK, CounterBounded, ChunkAnswered, Costs, Fault, remoteVars, chunkVars,
       flagVars
  <1>27. ASSUME NEW n \in Chunks, ChunkReports(n) PROVE CounterBounded'
    BY <1>27 DEF TypeOK, CounterBounded, ChunkReports, remoteVars, chunkVars, flagVars
  <1>28. ASSUME NEW n \in Chunks, ChunkLeaves(n) PROVE CounterBounded'
    <2>1. n \in Active
      BY <1>28 DEF ChunkLeaves, Active
    <2>2. counter >= 1
      BY <2>1, ActiveLess DEF TypeOK
    <2>3. QED
      BY <1>28, <2>2 DEF TypeOK, CounterBounded, ChunkLeaves, remoteVars, chunkVars, flagVars
  <1>29. CASE UNCHANGED vars
    BY <1>29 DEF TypeOK, CounterBounded, vars, remoteVars, chunkVars, flagVars
  <1>30. QED
    BY <1>1, <1>2, <1>3, <1>4, <1>5, <1>6, <1>7, <1>8, <1>9, <1>10, <1>11, <1>12, <1>13, <1>14,
       <1>15, <1>16, <1>17, <1>18, <1>19, <1>20, <1>21, <1>22, <1>23, <1>24, <1>25, <1>26,
       <1>27, <1>28, <1>29 DEF Next, Session, Cleaner, CancelSession, ChunkJob

\* Chunk jobs are cut, and sessions cancelled, only after an abort.
LEMMA CutStep ==
  ASSUME TypeOK, CutIsAborted, SweepIsAborted, [Next]_vars
  PROVE  CutIsAborted' /\ SweepIsAborted'
  <1>1. CASE SessionRuns
    BY <1>1 DEF TypeOK, CutIsAborted, SweepIsAborted, SessionRuns, remoteVars, chunkVars,
       flagVars
  <1>2. CASE QueueChunk
    BY <1>2 DEF TypeOK, CutIsAborted, SweepIsAborted, QueueChunk, remoteVars, chunkVars,
       flagVars
  <1>3. CASE ReadFails
    BY <1>3 DEF TypeOK, CutIsAborted, SweepIsAborted, ReadFails, Fault, remoteVars, chunkVars,
       flagVars
  <1>4. CASE LeaveLoop
    BY <1>4 DEF TypeOK, CutIsAborted, SweepIsAborted, LeaveLoop, remoteVars, chunkVars, flagVars
  <1>5. CASE WaitForJobsToComplete
    BY <1>5 DEF TypeOK, CutIsAborted, SweepIsAborted, WaitForJobsToComplete, LeavesWait,
       remoteVars, chunkVars, flagVars
  <1>6. CASE SendChunksReturns
    BY <1>6 DEF TypeOK, CutIsAborted, SweepIsAborted, SendChunksReturns, remoteVars, chunkVars,
       flagVars
  <1>7. CASE CloseRefused
    BY <1>7 DEF TypeOK, CutIsAborted, SweepIsAborted, CloseRefused, remoteVars, chunkVars,
       flagVars
  <1>8. CASE SessionAborts
    BY <1>8 DEF TypeOK, CutIsAborted, SweepIsAborted, SessionAborts, Threads, remoteVars,
       chunkVars, flagVars
  <1>9. CASE SessionEnds
    BY <1>9 DEF TypeOK, CutIsAborted, SweepIsAborted, SessionEnds, remoteVars, chunkVars,
       flagVars
  <1>10. ASSUME NEW ok \in BOOLEAN, InitChunks(ok) PROVE CutIsAborted' /\ SweepIsAborted'
    BY <1>10 DEF TypeOK, CutIsAborted, SweepIsAborted, InitChunks, GoesTo, Fault, remoteVars,
       chunkVars, flagVars
  <1>11. ASSUME NEW ok \in BOOLEAN, InsertToken(ok) PROVE CutIsAborted' /\ SweepIsAborted'
    BY <1>11 DEF TypeOK, CutIsAborted, SweepIsAborted, InsertToken, GoesTo, Fault, remoteVars,
       chunkVars, flagVars
  <1>12. ASSUME NEW ok \in BOOLEAN, DeleteToken(ok) PROVE CutIsAborted' /\ SweepIsAborted'
    BY <1>12 DEF TypeOK, CutIsAborted, SweepIsAborted, DeleteToken, GoesTo, Fault, remoteVars,
       chunkVars, flagVars
  <1>13. ASSUME NEW answer \in Answers, StartSession(answer)
         PROVE CutIsAborted' /\ SweepIsAborted'
    BY <1>13 DEF TypeOK, CutIsAborted, SweepIsAborted, StartSession, Costs, Fault, remoteVars,
       chunkVars, flagVars
  <1>14. ASSUME NEW answer \in Answers, CloseSession(answer)
         PROVE CutIsAborted' /\ SweepIsAborted'
    BY <1>14 DEF TypeOK, CutIsAborted, SweepIsAborted, CloseSession, Costs, Fault, remoteVars,
       chunkVars, flagVars
  <1>15. CASE ExecutorAborts
    BY <1>15 DEF TypeOK, CutIsAborted, SweepIsAborted, ExecutorAborts, Threads, remoteVars,
       chunkVars, flagVars
  <1>16. CASE CleanDeletes
    BY <1>16 DEF TypeOK, CutIsAborted, SweepIsAborted, CleanDeletes, remoteVars, chunkVars,
       flagVars
  <1>17. ASSUME NEW answer \in Answers, CleanCancels(answer)
         PROVE CutIsAborted' /\ SweepIsAborted'
    BY <1>17 DEF TypeOK, CutIsAborted, SweepIsAborted, CleanCancels, Costs, Fault, Quiet,
       remoteVars, chunkVars, flagVars
  <1>18. CASE Crash
    BY <1>18 DEF TypeOK, CutIsAborted, SweepIsAborted, Crash, Fault, remoteVars, chunkVars,
       flagVars
  <1>19. ASSUME NEW t \in Threads, CancelTest(t) PROVE CutIsAborted' /\ SweepIsAborted'
    BY <1>19 DEF TypeOK, CutIsAborted, SweepIsAborted, CancelTest, remoteVars, chunkVars,
       flagVars
  <1>20. ASSUME NEW t \in Threads, CancelSet(t) PROVE CutIsAborted' /\ SweepIsAborted'
    BY <1>20 DEF TypeOK, CutIsAborted, SweepIsAborted, CancelSet, remoteVars, chunkVars,
       flagVars
  <1>21. ASSUME NEW t \in Threads, CancelChunks(t) PROVE CutIsAborted' /\ SweepIsAborted'
    BY <1>21 DEF TypeOK, CutIsAborted, SweepIsAborted, CancelChunks, remoteVars, chunkVars,
       flagVars
  <1>22. ASSUME NEW t \in Threads, CancelRefused(t) PROVE CutIsAborted' /\ SweepIsAborted'
    BY <1>22 DEF TypeOK, CutIsAborted, SweepIsAborted, CancelRefused, remoteVars, chunkVars,
       flagVars
  <1>23. ASSUME NEW t \in Threads, NEW answer \in Answers, CancelRequest(t, answer)
         PROVE CutIsAborted' /\ SweepIsAborted'
    BY <1>23 DEF TypeOK, CutIsAborted, SweepIsAborted, CancelRequest, Costs, Fault, remoteVars,
       chunkVars, flagVars
  <1>24. ASSUME NEW t \in Threads, NEW ok \in BOOLEAN, CancelForgets(t, ok)
         PROVE CutIsAborted' /\ SweepIsAborted'
    BY <1>24 DEF TypeOK, CutIsAborted, SweepIsAborted, CancelForgets, Fault, remoteVars,
       chunkVars, flagVars
  <1>25. ASSUME NEW n \in Chunks, ChunkStarts(n) PROVE CutIsAborted' /\ SweepIsAborted'
    BY <1>25 DEF TypeOK, CutIsAborted, SweepIsAborted, ChunkStarts, remoteVars, chunkVars,
       flagVars
  <1>26. ASSUME NEW n \in Chunks, NEW answer \in Answers, ChunkAnswered(n, answer)
         PROVE CutIsAborted' /\ SweepIsAborted'
    BY <1>26 DEF TypeOK, CutIsAborted, SweepIsAborted, ChunkAnswered, Costs, Fault, remoteVars,
       chunkVars, flagVars
  <1>27. ASSUME NEW n \in Chunks, ChunkReports(n) PROVE CutIsAborted' /\ SweepIsAborted'
    BY <1>27 DEF TypeOK, CutIsAborted, SweepIsAborted, ChunkReports, remoteVars, chunkVars,
       flagVars
  <1>28. ASSUME NEW n \in Chunks, ChunkLeaves(n) PROVE CutIsAborted' /\ SweepIsAborted'
    BY <1>28 DEF TypeOK, CutIsAborted, SweepIsAborted, ChunkLeaves, remoteVars, chunkVars,
       flagVars
  <1>29. CASE UNCHANGED vars
    BY <1>29 DEF TypeOK, CutIsAborted, SweepIsAborted, vars, remoteVars, chunkVars, flagVars
  <1>30. QED
    BY <1>1, <1>2, <1>3, <1>4, <1>5, <1>6, <1>7, <1>8, <1>9, <1>10, <1>11, <1>12, <1>13, <1>14,
       <1>15, <1>16, <1>17, <1>18, <1>19, <1>20, <1>21, <1>22, <1>23, <1>24, <1>25, <1>26,
       <1>27, <1>28, <1>29 DEF Next, Session, Cleaner, CancelSession, ChunkJob

\* The heart of the matter: the thread that has read zero, and no error and no
\* abort, knows that every chunk was received.
LEMMA WaitedForAll ==
  ASSUME TypeOK, ActiveCounted, ChunksInOrder, AnsweredIsReceived, AllSentIsReceived,
         pc = "waitAll", LeavesWait(TRUE), Succeeds
  PROVE  received = Chunks
  <1>1. counter = 0
    BY DEF LeavesWait, Succeeds, TypeOK
  <1>2. Active \subseteq Chunks /\ IsFiniteSet(Active) /\ Cardinality(Active) = 0
    BY <1>1, ActiveSet DEF Active, ActiveCounted
  <1>3. Active = {}
    BY <1>2, FS_EmptySet
  <1>4. ASSUME NEW n \in Chunks
        PROVE  n \in received
    <2>1. chunk[n] \in {"none", "over"}
      BY <1>3 DEF Active, TypeOK
    <2>2. n < next
      BY DEF AllSentIsReceived, TypeOK, Chunks
    <2>3. chunk[n] # "none"
      BY <2>2 DEF ChunksInOrder, TypeOK, Chunks
    <2>4. QED
      BY <2>1, <2>3 DEF AnsweredIsReceived
  <1>5. QED
    BY <1>4 DEF TypeOK

\* What the thread of the session knows at each of its steps.
LEMMA SentStep ==
  ASSUME TypeOK, AllSentIsReceived, ActiveCounted, ChunksInOrder, AnsweredIsReceived, [Next]_vars
  PROVE  AllSentIsReceived'
  <1>1. CASE SessionRuns
    BY <1>1 DEF TypeOK, AllSentIsReceived, FinishedIsComplete, Succeeds, SessionRuns,
       remoteVars, chunkVars, flagVars
  <1>2. CASE QueueChunk
    BY <1>2 DEF TypeOK, AllSentIsReceived, FinishedIsComplete, Succeeds, QueueChunk, remoteVars,
       chunkVars, flagVars
  <1>3. CASE ReadFails
    BY <1>3 DEF TypeOK, AllSentIsReceived, FinishedIsComplete, Succeeds, ReadFails, Fault,
       remoteVars, chunkVars, flagVars
  <1>4. CASE LeaveLoop
    BY <1>4 DEF TypeOK, AllSentIsReceived, FinishedIsComplete, Succeeds, LeaveLoop, remoteVars,
       chunkVars, flagVars
  <1>5. CASE WaitForJobsToComplete
    <2>1. CASE pc = "wait"
      BY <1>5, <2>1 DEF TypeOK, AllSentIsReceived, FinishedIsComplete, WaitForJobsToComplete,
         remoteVars, chunkVars, flagVars
    <2>2. CASE pc = "waitAll" /\ ~Succeeds
      BY <1>5, <2>2 DEF TypeOK, AllSentIsReceived, FinishedIsComplete, Succeeds,
         WaitForJobsToComplete, remoteVars, chunkVars, flagVars
    <2>3. CASE pc = "waitAll" /\ Succeeds
      BY <1>5, <2>3, WaitedForAll DEF TypeOK, AllSentIsReceived, FinishedIsComplete, Succeeds,
         WaitForJobsToComplete, remoteVars, chunkVars, flagVars
    <2>4. QED
      BY <1>5, <2>1, <2>2, <2>3 DEF WaitForJobsToComplete
  <1>6. CASE SendChunksReturns
    BY <1>6 DEF TypeOK, AllSentIsReceived, FinishedIsComplete, Succeeds, SendChunksReturns,
       remoteVars, chunkVars, flagVars
  <1>7. CASE CloseRefused
    BY <1>7 DEF TypeOK, AllSentIsReceived, FinishedIsComplete, Succeeds, CloseRefused,
       remoteVars, chunkVars, flagVars
  <1>8. CASE SessionAborts
    BY <1>8 DEF TypeOK, AllSentIsReceived, FinishedIsComplete, Succeeds, SessionAborts, Threads,
       remoteVars, chunkVars, flagVars
  <1>9. CASE SessionEnds
    BY <1>9 DEF TypeOK, AllSentIsReceived, FinishedIsComplete, Succeeds, SessionEnds,
       remoteVars, chunkVars, flagVars
  <1>10. ASSUME NEW ok \in BOOLEAN, InitChunks(ok) PROVE AllSentIsReceived'
    BY <1>10 DEF TypeOK, AllSentIsReceived, FinishedIsComplete, Succeeds, InitChunks, GoesTo,
       Fault, remoteVars, chunkVars, flagVars
  <1>11. ASSUME NEW ok \in BOOLEAN, InsertToken(ok) PROVE AllSentIsReceived'
    BY <1>11 DEF TypeOK, AllSentIsReceived, FinishedIsComplete, Succeeds, InsertToken, GoesTo,
       Fault, remoteVars, chunkVars, flagVars
  <1>12. ASSUME NEW ok \in BOOLEAN, DeleteToken(ok) PROVE AllSentIsReceived'
    BY <1>12 DEF TypeOK, AllSentIsReceived, FinishedIsComplete, Succeeds, DeleteToken, GoesTo,
       Fault, remoteVars, chunkVars, flagVars
  <1>13. ASSUME NEW answer \in Answers, StartSession(answer) PROVE AllSentIsReceived'
    BY <1>13 DEF TypeOK, AllSentIsReceived, FinishedIsComplete, Succeeds, StartSession, Costs,
       Fault, remoteVars, chunkVars, flagVars
  <1>14. ASSUME NEW answer \in Answers, CloseSession(answer) PROVE AllSentIsReceived'
    BY <1>14 DEF TypeOK, AllSentIsReceived, FinishedIsComplete, Succeeds, CloseSession, Costs,
       Fault, remoteVars, chunkVars, flagVars
  <1>15. CASE ExecutorAborts
    BY <1>15 DEF TypeOK, AllSentIsReceived, FinishedIsComplete, Succeeds, ExecutorAborts,
       Threads, remoteVars, chunkVars, flagVars
  <1>16. CASE CleanDeletes
    BY <1>16 DEF TypeOK, AllSentIsReceived, FinishedIsComplete, Succeeds, CleanDeletes,
       remoteVars, chunkVars, flagVars
  <1>17. ASSUME NEW answer \in Answers, CleanCancels(answer) PROVE AllSentIsReceived'
    BY <1>17 DEF TypeOK, AllSentIsReceived, FinishedIsComplete, Succeeds, CleanCancels, Costs,
       Fault, Quiet, remoteVars, chunkVars, flagVars
  <1>18. CASE Crash
    BY <1>18 DEF TypeOK, AllSentIsReceived, FinishedIsComplete, Succeeds, Crash, Fault,
       remoteVars, chunkVars, flagVars
  <1>19. ASSUME NEW t \in Threads, CancelTest(t) PROVE AllSentIsReceived'
    BY <1>19 DEF TypeOK, AllSentIsReceived, FinishedIsComplete, Succeeds, CancelTest,
       remoteVars, chunkVars, flagVars
  <1>20. ASSUME NEW t \in Threads, CancelSet(t) PROVE AllSentIsReceived'
    BY <1>20 DEF TypeOK, AllSentIsReceived, FinishedIsComplete, Succeeds, CancelSet, remoteVars,
       chunkVars, flagVars
  <1>21. ASSUME NEW t \in Threads, CancelChunks(t) PROVE AllSentIsReceived'
    BY <1>21 DEF TypeOK, AllSentIsReceived, FinishedIsComplete, Succeeds, CancelChunks,
       remoteVars, chunkVars, flagVars
  <1>22. ASSUME NEW t \in Threads, CancelRefused(t) PROVE AllSentIsReceived'
    BY <1>22 DEF TypeOK, AllSentIsReceived, FinishedIsComplete, Succeeds, CancelRefused,
       remoteVars, chunkVars, flagVars
  <1>23. ASSUME NEW t \in Threads, NEW answer \in Answers, CancelRequest(t, answer)
         PROVE AllSentIsReceived'
    BY <1>23 DEF TypeOK, AllSentIsReceived, FinishedIsComplete, Succeeds, CancelRequest, Costs,
       Fault, remoteVars, chunkVars, flagVars
  <1>24. ASSUME NEW t \in Threads, NEW ok \in BOOLEAN, CancelForgets(t, ok)
         PROVE AllSentIsReceived'
    BY <1>24 DEF TypeOK, AllSentIsReceived, FinishedIsComplete, Succeeds, CancelForgets, Fault,
       remoteVars, chunkVars, flagVars
  <1>25. ASSUME NEW n \in Chunks, ChunkStarts(n) PROVE AllSentIsReceived'
    BY <1>25 DEF TypeOK, AllSentIsReceived, FinishedIsComplete, Succeeds, ChunkStarts,
       remoteVars, chunkVars, flagVars
  <1>26. ASSUME NEW n \in Chunks, NEW answer \in Answers, ChunkAnswered(n, answer)
         PROVE AllSentIsReceived'
    BY <1>26 DEF TypeOK, AllSentIsReceived, FinishedIsComplete, Succeeds, ChunkAnswered, Costs,
       Fault, remoteVars, chunkVars, flagVars
  <1>27. ASSUME NEW n \in Chunks, ChunkReports(n) PROVE AllSentIsReceived'
    BY <1>27 DEF TypeOK, AllSentIsReceived, FinishedIsComplete, Succeeds, ChunkReports,
       remoteVars, chunkVars, flagVars
  <1>28. ASSUME NEW n \in Chunks, ChunkLeaves(n) PROVE AllSentIsReceived'
    BY <1>28 DEF TypeOK, AllSentIsReceived, FinishedIsComplete, Succeeds, ChunkLeaves,
       remoteVars, chunkVars, flagVars
  <1>29. CASE UNCHANGED vars
    BY <1>29 DEF TypeOK, AllSentIsReceived, FinishedIsComplete, Succeeds, vars, remoteVars,
       chunkVars, flagVars
  <1>30. QED
    BY <1>1, <1>2, <1>3, <1>4, <1>5, <1>6, <1>7, <1>8, <1>9, <1>10, <1>11, <1>12, <1>13, <1>14,
       <1>15, <1>16, <1>17, <1>18, <1>19, <1>20, <1>21, <1>22, <1>23, <1>24, <1>25, <1>26,
       <1>27, <1>28, <1>29 DEF Next, Session, Cleaner, CancelSession, ChunkJob

\* Who is about to delete the token knows that the session is closed.
LEMMA TokenStep ==
  ASSUME TypeOK, TokenInv, [Next]_vars
  PROVE  TokenInv'
  <1>1. CASE SessionRuns
    BY <1>1 DEF TypeOK, TokenInv, StartedAfterInsert, CancelsStarted, DeletesClosed,
       SessionRuns, remoteVars, chunkVars, flagVars
  <1>2. CASE QueueChunk
    BY <1>2 DEF TypeOK, TokenInv, StartedAfterInsert, CancelsStarted, DeletesClosed, QueueChunk,
       remoteVars, chunkVars, flagVars
  <1>3. CASE ReadFails
    BY <1>3 DEF TypeOK, TokenInv, StartedAfterInsert, CancelsStarted, DeletesClosed, ReadFails,
       Fault, remoteVars, chunkVars, flagVars
  <1>4. CASE LeaveLoop
    BY <1>4 DEF TypeOK, TokenInv, StartedAfterInsert, CancelsStarted, DeletesClosed, LeaveLoop,
       remoteVars, chunkVars, flagVars
  <1>5. CASE WaitForJobsToComplete
    BY <1>5 DEF TypeOK, TokenInv, StartedAfterInsert, CancelsStarted, DeletesClosed,
       WaitForJobsToComplete, LeavesWait, remoteVars, chunkVars, flagVars
  <1>6. CASE SendChunksReturns
    BY <1>6 DEF TypeOK, TokenInv, StartedAfterInsert, CancelsStarted, DeletesClosed,
       SendChunksReturns, remoteVars, chunkVars, flagVars
  <1>7. CASE CloseRefused
    BY <1>7 DEF TypeOK, TokenInv, StartedAfterInsert, CancelsStarted, DeletesClosed,
       CloseRefused, remoteVars, chunkVars, flagVars
  <1>8. CASE SessionAborts
    BY <1>8 DEF TypeOK, TokenInv, StartedAfterInsert, CancelsStarted, DeletesClosed,
       SessionAborts, Threads, remoteVars, chunkVars, flagVars
  <1>9. CASE SessionEnds
    BY <1>9 DEF TypeOK, TokenInv, StartedAfterInsert, CancelsStarted, DeletesClosed,
       SessionEnds, remoteVars, chunkVars, flagVars
  <1>10. ASSUME NEW ok \in BOOLEAN, InitChunks(ok) PROVE TokenInv'
    BY <1>10 DEF TypeOK, TokenInv, StartedAfterInsert, CancelsStarted, DeletesClosed,
       InitChunks, GoesTo, Fault, remoteVars, chunkVars, flagVars
  <1>11. ASSUME NEW ok \in BOOLEAN, InsertToken(ok) PROVE TokenInv'
    BY <1>11 DEF TypeOK, TokenInv, StartedAfterInsert, CancelsStarted, DeletesClosed,
       InsertToken, GoesTo, Fault, remoteVars, chunkVars, flagVars
  <1>12. ASSUME NEW ok \in BOOLEAN, DeleteToken(ok) PROVE TokenInv'
    BY <1>12 DEF TypeOK, TokenInv, StartedAfterInsert, CancelsStarted, DeletesClosed,
       DeleteToken, GoesTo, Fault, remoteVars, chunkVars, flagVars
  <1>13. ASSUME NEW answer \in Answers, StartSession(answer) PROVE TokenInv'
    BY <1>13 DEF TypeOK, TokenInv, StartedAfterInsert, CancelsStarted, DeletesClosed,
       StartSession, Costs, Fault, remoteVars, chunkVars, flagVars
  <1>14. ASSUME NEW answer \in Answers, CloseSession(answer) PROVE TokenInv'
    BY <1>14 DEF TypeOK, TokenInv, StartedAfterInsert, CancelsStarted, DeletesClosed,
       CloseSession, Costs, Fault, remoteVars, chunkVars, flagVars
  <1>15. CASE ExecutorAborts
    BY <1>15 DEF TypeOK, TokenInv, StartedAfterInsert, CancelsStarted, DeletesClosed,
       ExecutorAborts, Threads, remoteVars, chunkVars, flagVars
  <1>16. CASE CleanDeletes
    BY <1>16 DEF TypeOK, TokenInv, StartedAfterInsert, CancelsStarted, DeletesClosed,
       CleanDeletes, remoteVars, chunkVars, flagVars
  <1>17. ASSUME NEW answer \in Answers, CleanCancels(answer) PROVE TokenInv'
    BY <1>17 DEF TypeOK, TokenInv, StartedAfterInsert, CancelsStarted, DeletesClosed,
       CleanCancels, Costs, Fault, Quiet, remoteVars, chunkVars, flagVars
  <1>18. CASE Crash
    BY <1>18 DEF TypeOK, TokenInv, StartedAfterInsert, CancelsStarted, DeletesClosed, Crash,
       Fault, remoteVars, chunkVars, flagVars
  <1>19. ASSUME NEW t \in Threads, CancelTest(t) PROVE TokenInv'
    BY <1>19 DEF TypeOK, TokenInv, StartedAfterInsert, CancelsStarted, DeletesClosed,
       CancelTest, remoteVars, chunkVars, flagVars
  <1>20. ASSUME NEW t \in Threads, CancelSet(t) PROVE TokenInv'
    BY <1>20 DEF TypeOK, TokenInv, StartedAfterInsert, CancelsStarted, DeletesClosed, CancelSet,
       remoteVars, chunkVars, flagVars
  <1>21. ASSUME NEW t \in Threads, CancelChunks(t) PROVE TokenInv'
    BY <1>21 DEF TypeOK, TokenInv, StartedAfterInsert, CancelsStarted, DeletesClosed,
       CancelChunks, remoteVars, chunkVars, flagVars
  <1>22. ASSUME NEW t \in Threads, CancelRefused(t) PROVE TokenInv'
    BY <1>22 DEF TypeOK, TokenInv, StartedAfterInsert, CancelsStarted, DeletesClosed,
       CancelRefused, remoteVars, chunkVars, flagVars
  <1>23. ASSUME NEW t \in Threads, NEW answer \in Answers, CancelRequest(t, answer)
         PROVE TokenInv'
    BY <1>23 DEF TypeOK, TokenInv, StartedAfterInsert, CancelsStarted, DeletesClosed,
       CancelRequest, Costs, Fault, remoteVars, chunkVars, flagVars
  <1>24. ASSUME NEW t \in Threads, NEW ok \in BOOLEAN, CancelForgets(t, ok) PROVE TokenInv'
    BY <1>24 DEF TypeOK, TokenInv, StartedAfterInsert, CancelsStarted, DeletesClosed,
       CancelForgets, Fault, remoteVars, chunkVars, flagVars
  <1>25. ASSUME NEW n \in Chunks, ChunkStarts(n) PROVE TokenInv'
    BY <1>25 DEF TypeOK, TokenInv, StartedAfterInsert, CancelsStarted, DeletesClosed,
       ChunkStarts, remoteVars, chunkVars, flagVars
  <1>26. ASSUME NEW n \in Chunks, NEW answer \in Answers, ChunkAnswered(n, answer)
         PROVE TokenInv'
    BY <1>26 DEF TypeOK, TokenInv, StartedAfterInsert, CancelsStarted, DeletesClosed,
       ChunkAnswered, Costs, Fault, remoteVars, chunkVars, flagVars
  <1>27. ASSUME NEW n \in Chunks, ChunkReports(n) PROVE TokenInv'
    BY <1>27 DEF TypeOK, TokenInv, StartedAfterInsert, CancelsStarted, DeletesClosed,
       ChunkReports, remoteVars, chunkVars, flagVars
  <1>28. ASSUME NEW n \in Chunks, ChunkLeaves(n) PROVE TokenInv'
    BY <1>28 DEF TypeOK, TokenInv, StartedAfterInsert, CancelsStarted, DeletesClosed,
       ChunkLeaves, remoteVars, chunkVars, flagVars
  <1>29. CASE UNCHANGED vars
    BY <1>29 DEF TypeOK, TokenInv, StartedAfterInsert, CancelsStarted, DeletesClosed, vars,
       remoteVars, chunkVars, flagVars
  <1>30. QED
    BY <1>1, <1>2, <1>3, <1>4, <1>5, <1>6, <1>7, <1>8, <1>9, <1>10, <1>11, <1>12, <1>13, <1>14,
       <1>15, <1>16, <1>17, <1>18, <1>19, <1>20, <1>21, <1>22, <1>23, <1>24, <1>25, <1>26,
       <1>27, <1>28, <1>29 DEF Next, Session, Cleaner, CancelSession, ChunkJob

\* The invariants hold at the start.
LEMMA InvInit ==
  ASSUME Init
  PROVE  ChunkInv /\ TokenInv
  <1>1. Active = {}
    BY DEF Init, Active
  <1>2. ActiveCounted
    BY <1>1, FS_EmptySet DEF Init, ActiveCounted
  <1>3. CounterBounded /\ AllSentIsReceived
    BY DEF Init, CounterBounded, AllSentIsReceived, FinishedIsComplete
  <1>4. ChunksInOrder /\ AnsweredIsReceived
    BY DEF Init, ChunksInOrder, AnsweredIsReceived, Chunks
  <1>5. CutIsAborted /\ SweepIsAborted
    BY DEF Init, CutIsAborted, SweepIsAborted
  <1>6. TokenInv
    BY DEF Init, TokenInv, StartedAfterInsert, CancelsStarted, DeletesClosed
  <1>7. QED
    BY <1>2, <1>3, <1>4, <1>5, <1>6 DEF ChunkInv

\* The counter covers the active jobs: both lose the job that leaves.
LEMMA ActiveStep ==
  ASSUME TypeOK, ActiveCounted, [Next]_vars
  PROVE  ActiveCounted'
  <1>1. ChunkStep
    BY OnlyChunkSteps
  <1>2. CASE KeepsChunks
    BY <1>2 DEF ActiveCounted, Active, KeepsChunks
  <1>3. CASE QueueChunk
    <2>1. next \in Chunks
      BY <1>3 DEF QueueChunk, TypeOK, Chunks
    <2>2. Active' \subseteq Active \cup {next} /\ counter' = counter + 1
      BY <1>3 DEF QueueChunk, TypeOK, Active
    <2>3. Active \subseteq Chunks /\ Active \cup {next} \subseteq Chunks
      BY <2>1 DEF Active
    <2>4. /\ IsFiniteSet(Active) /\ Cardinality(Active) \in Nat
          /\ Cardinality(Active \cup {next}) \in Nat
      BY <2>3, ActiveSet
    <2>5. Cardinality(Active \cup {next}) <= Cardinality(Active) + 1
      BY <2>4, FS_AddElement
    <2>6. Cardinality(Active') <= Cardinality(Active \cup {next}) /\ Cardinality(Active') \in Nat
      BY <2>2, <2>3, FewerActive, ActiveSet
    <2>7. QED
      BY <2>2, <2>4, <2>5, <2>6 DEF ActiveCounted, TypeOK
  <1>4. CASE Crash
    <2>1. Active' = {} /\ counter' = 0
      BY <1>4 DEF Crash, Active
    <2>2. QED
      BY <2>1, FS_EmptySet DEF ActiveCounted
  <1>5. ASSUME NEW n \in Chunks, ChunkLeaves(n)
        PROVE  ActiveCounted'
    <2>1. n \in Active /\ Active' \subseteq Active \ {n} /\ counter' = counter - 1
      BY <1>5 DEF ChunkLeaves, Active, TypeOK
    <2>2. counter > Cardinality(Active \ {n})
      BY <2>1, ActiveLess
    <2>3. Active \ {n} \subseteq Chunks
      BY DEF Active
    <2>4. /\ Cardinality(Active') <= Cardinality(Active \ {n})
          /\ Cardinality(Active \ {n}) \in Nat /\ Cardinality(Active') \in Nat
      BY <2>1, <2>3, FewerActive, ActiveSet
    <2>5. QED
      BY <2>1, <2>2, <2>4 DEF ActiveCounted, TypeOK
  <1>6. ASSUME NEW n \in Chunks, NEW answer \in Answers,
               ChunkStarts(n) \/ ChunkReports(n) \/ ChunkAnswered(n, answer)
        PROVE  ActiveCounted'
    <2>1. Active' \subseteq Active /\ UNCHANGED counter
      BY <1>6 DEF ChunkStarts, ChunkReports, ChunkAnswered, Active, TypeOK
    <2>2. Active \subseteq Chunks
      BY DEF Active
    <2>3. /\ Cardinality(Active') <= Cardinality(Active)
          /\ Cardinality(Active) \in Nat /\ Cardinality(Active') \in Nat
      BY <2>1, <2>2, FewerActive, ActiveSet
    <2>4. QED
      BY <2>1, <2>3 DEF ActiveCounted, TypeOK
  <1>7. Answers # {}
    BY DEF Answers
  <1>8. QED
    BY <1>1, <1>2, <1>3, <1>4, <1>5, <1>6, <1>7 DEF ChunkStep, ChunkJob

\* The chunks are queued in order.
LEMMA OrderStep ==
  ASSUME TypeOK, ChunksInOrder, [Next]_vars
  PROVE  ChunksInOrder'
  <1>1. ChunkStep
    BY OnlyChunkSteps
  <1>2. SUFFICES ASSUME pc' # "crashed", NEW m \in Chunks
                 PROVE  (chunk[m] = "none" <=> m >= next)'
    BY DEF ChunksInOrder, TypeOK
  <1>3. CASE KeepsChunks
    BY <1>2, <1>3 DEF ChunksInOrder, KeepsChunks
  <1>4. CASE QueueChunk
    BY <1>2, <1>4 DEF ChunksInOrder, QueueChunk, TypeOK, Chunks
  <1>5. CASE Crash
    BY <1>2, <1>5 DEF Crash
  <1>6. ASSUME NEW n \in Chunks, NEW answer \in Answers,
               ChunkStarts(n) \/ ChunkReports(n) \/ ChunkLeaves(n) \/ ChunkAnswered(n, answer)
        PROVE  (chunk[m] = "none" <=> m >= next)'
    BY <1>2, <1>6 DEF ChunksInOrder, ChunkStarts, ChunkReports, ChunkLeaves, ChunkAnswered, TypeOK
  <1>7. Answers # {}
    BY DEF Answers
  <1>8. QED
    BY <1>1, <1>3, <1>4, <1>5, <1>6, <1>7 DEF ChunkStep, ChunkJob

\* Without an error or an abort, a chunk whose job has answered was received.
LEMMA AnsweredStep ==
  ASSUME TypeOK, AnsweredIsReceived, CutIsAborted, [Next]_vars
  PROVE  AnsweredIsReceived'
  <1>1. ChunkStep
    BY OnlyChunkSteps
  <1>2. SUFFICES ASSUME Succeeds', NEW m \in Chunks, chunk'[m] \in {"ok", "reported", "over"}
                 PROVE  m \in received'
    BY DEF AnsweredIsReceived
  <1>3. CASE KeepsChunks
    BY <1>2, <1>3 DEF AnsweredIsReceived, KeepsChunks, Succeeds
  <1>4. CASE QueueChunk
    BY <1>2, <1>4 DEF AnsweredIsReceived, QueueChunk, TypeOK, Succeeds, remoteVars, flagVars
  <1>5. CASE Crash
    BY <1>2, <1>5 DEF Crash, Succeeds
  <1>6. ASSUME NEW n \in Chunks, ChunkStarts(n)
        PROVE  m \in received'
    BY <1>2, <1>6 DEF AnsweredIsReceived, CutIsAborted, ChunkStarts, TypeOK, Succeeds, remoteVars, flagVars
  <1>7. ASSUME NEW n \in Chunks, NEW answer \in Answers, ChunkAnswered(n, answer)
        PROVE  m \in received'
    BY <1>2, <1>7 DEF AnsweredIsReceived, CutIsAborted, ChunkAnswered, TypeOK, Succeeds, Answers, flagVars
  <1>8. ASSUME NEW n \in Chunks, ChunkReports(n)
        PROVE  m \in received'
    BY <1>2, <1>8 DEF AnsweredIsReceived, ChunkReports, TypeOK, Succeeds, remoteVars
  <1>9. ASSUME NEW n \in Chunks, ChunkLeaves(n)
        PROVE  m \in received'
    BY <1>2, <1>9 DEF AnsweredIsReceived, ChunkLeaves, TypeOK, Succeeds, remoteVars, flagVars
  <1>10. QED
    BY <1>1, <1>3, <1>4, <1>5, <1>6, <1>7, <1>8, <1>9 DEF ChunkStep, ChunkJob

Deletes ==
    \/ \E ok \in BOOLEAN : DeleteToken(ok)
    \/ \E t \in Threads, ok \in BOOLEAN : CancelForgets(t, ok)
    \/ CleanDeletes

\* Three steps delete the token.
LEMMA OnlyDeletes ==
  ASSUME TypeOK, [Next]_vars, token, ~token'
  PROVE  Deletes
  <1>1. CASE SessionRuns
    BY <1>1 DEF SessionRuns, remoteVars, chunkVars, flagVars
  <1>2. CASE QueueChunk
    BY <1>2 DEF QueueChunk, remoteVars, chunkVars, flagVars
  <1>3. CASE ReadFails
    BY <1>3 DEF ReadFails, Fault, remoteVars, chunkVars, flagVars
  <1>4. CASE LeaveLoop
    BY <1>4 DEF LeaveLoop, remoteVars, chunkVars, flagVars
  <1>5. CASE WaitForJobsToComplete
    BY <1>5 DEF WaitForJobsToComplete, LeavesWait, remoteVars, chunkVars, flagVars
  <1>6. CASE SendChunksReturns
    BY <1>6 DEF SendChunksReturns, remoteVars, chunkVars, flagVars
  <1>7. CASE CloseRefused
    BY <1>7 DEF CloseRefused, remoteVars, chunkVars, flagVars
  <1>8. CASE SessionAborts
    BY <1>8 DEF SessionAborts, Threads, remoteVars, chunkVars, flagVars
  <1>9. CASE SessionEnds
    BY <1>9 DEF SessionEnds, remoteVars, chunkVars, flagVars
  <1>10. ASSUME NEW ok \in BOOLEAN, InitChunks(ok) PROVE Deletes
    BY <1>10 DEF InitChunks, GoesTo, Fault, remoteVars, chunkVars, flagVars
  <1>11. ASSUME NEW ok \in BOOLEAN, InsertToken(ok) PROVE Deletes
    BY <1>11 DEF InsertToken, GoesTo, Fault, remoteVars, chunkVars, flagVars
  <1>12. ASSUME NEW ok \in BOOLEAN, DeleteToken(ok) PROVE Deletes
    BY <1>12 DEF Deletes
  <1>13. ASSUME NEW answer \in Answers, StartSession(answer) PROVE Deletes
    BY <1>13 DEF StartSession, Costs, Fault, remoteVars, chunkVars, flagVars
  <1>14. ASSUME NEW answer \in Answers, CloseSession(answer) PROVE Deletes
    BY <1>14 DEF CloseSession, Costs, Fault, remoteVars, chunkVars, flagVars
  <1>15. CASE ExecutorAborts
    BY <1>15 DEF ExecutorAborts, Threads, remoteVars, chunkVars, flagVars
  <1>16. CASE CleanDeletes
    BY <1>16 DEF Deletes
  <1>17. ASSUME NEW answer \in Answers, CleanCancels(answer) PROVE Deletes
    BY <1>17 DEF CleanCancels, Costs, Fault, Quiet, remoteVars, chunkVars, flagVars
  <1>18. CASE Crash
    BY <1>18 DEF Crash, Fault, remoteVars, chunkVars, flagVars
  <1>19. ASSUME NEW t \in Threads, CancelTest(t) PROVE Deletes
    BY <1>19 DEF CancelTest, remoteVars, chunkVars, flagVars
  <1>20. ASSUME NEW t \in Threads, CancelSet(t) PROVE Deletes
    BY <1>20 DEF CancelSet, remoteVars, chunkVars, flagVars
  <1>21. ASSUME NEW t \in Threads, CancelChunks(t) PROVE Deletes
    BY <1>21 DEF CancelChunks, remoteVars, chunkVars, flagVars
  <1>22. ASSUME NEW t \in Threads, CancelRefused(t) PROVE Deletes
    BY <1>22 DEF CancelRefused, remoteVars, chunkVars, flagVars
  <1>23. ASSUME NEW t \in Threads, NEW answer \in Answers, CancelRequest(t, answer)
         PROVE Deletes
    BY <1>23 DEF CancelRequest, Costs, Fault, remoteVars, chunkVars, flagVars
  <1>24. ASSUME NEW t \in Threads, NEW ok \in BOOLEAN, CancelForgets(t, ok) PROVE Deletes
    BY <1>24 DEF Deletes
  <1>25. ASSUME NEW n \in Chunks, ChunkStarts(n) PROVE Deletes
    BY <1>25 DEF ChunkStarts, remoteVars, chunkVars, flagVars
  <1>26. ASSUME NEW n \in Chunks, NEW answer \in Answers, ChunkAnswered(n, answer) PROVE Deletes
    BY <1>26 DEF ChunkAnswered, Costs, Fault, remoteVars, chunkVars, flagVars
  <1>27. ASSUME NEW n \in Chunks, ChunkReports(n) PROVE Deletes
    BY <1>27 DEF ChunkReports, remoteVars, chunkVars, flagVars
  <1>28. ASSUME NEW n \in Chunks, ChunkLeaves(n) PROVE Deletes
    BY <1>28 DEF ChunkLeaves, remoteVars, chunkVars, flagVars
  <1>29. CASE UNCHANGED vars
    BY <1>29 DEF vars
  <1>30. QED
    BY <1>1, <1>2, <1>3, <1>4, <1>5, <1>6, <1>7, <1>8, <1>9, <1>10, <1>11, <1>12, <1>13, <1>14,
       <1>15, <1>16, <1>17, <1>18, <1>19, <1>20, <1>21, <1>22, <1>23, <1>24, <1>25, <1>26,
       <1>27, <1>28, <1>29 DEF Next, Session, Cleaner, CancelSession, ChunkJob

(***************************************************************************)
(* The theorems.                                                           *)
(***************************************************************************)
IInv == TypeOK /\ ChunkInv /\ TokenInv

\* Every step keeps the inductive invariant.
LEMMA InvStep ==
  ASSUME IInv, [Next]_vars
  PROVE  IInv'
  <1>1. TypeOK'
    BY TypeStep DEF IInv, ChunkInv
  <1>2. ActiveCounted' /\ CounterBounded' /\ ChunksInOrder'
    BY ActiveStep, BoundStep, OrderStep DEF IInv, ChunkInv
  <1>3. CutIsAborted' /\ SweepIsAborted' /\ AnsweredIsReceived'
    BY CutStep, AnsweredStep DEF IInv, ChunkInv
  <1>4. AllSentIsReceived'
    BY SentStep DEF IInv, ChunkInv
  <1>5. TokenInv'
    BY TokenStep DEF IInv
  <1>6. QED
    BY <1>1, <1>2, <1>3, <1>4, <1>5 DEF IInv, ChunkInv

\* The inductive invariant always holds.
LEMMA Invariance == Spec => []IInv
  <1>1. Init => IInv
    BY TypeInit, InvInit DEF IInv
  <1>2. IInv /\ [Next]_vars => IInv'
    BY InvStep
  <1>3. QED
    BY <1>1, <1>2, PTL DEF Spec

\* The state of a session keeps its type; above all the unsigned number of its
\* chunk jobs is never decremented below zero.
THEOREM TypeCorrect == Spec => []TypeOK
  <1>1. IInv => TypeOK
    BY DEF IInv
  <1>2. QED
    BY <1>1, Invariance, PTL

\* The server assembles a file only when it has all its chunks, whatever is
\* aborted, lost or refused, and without a lock around the reads that decide.
THEOREM AssembledIsComplete == Spec => []FinishedIsComplete
  <1>1. IInv => FinishedIsComplete
    BY DEF IInv, ChunkInv, AllSentIsReceived
  <1>2. QED
    BY <1>1, Invariance, PTL

\* There are never more chunk jobs at work than threads for them, plus one.
THEOREM MemoryBounded == Spec => []ChunksBounded
  <1>1. ASSUME IInv
        PROVE  ChunksBounded
    <2> DEFINE Held == {n \in Chunks : chunk[n] \in {"queued", "running"} /\ n \notin cut}
    <2>1. Held \subseteq Active /\ Active \subseteq Chunks /\ Held \subseteq Chunks
      BY DEF Active
    <2>2. /\ Cardinality(Held) <= Cardinality(Active)
          /\ Cardinality(Held) \in Nat /\ Cardinality(Active) \in Nat
      BY <2>1, FewerActive, ActiveSet
    <2>3. Cardinality(Active) <= counter /\ counter <= Parallel + 1 /\ counter \in Nat
      BY <1>1 DEF IInv, ChunkInv, ActiveCounted, CounterBounded, TypeOK
    <2>4. QED
      BY <2>2, <2>3 DEF ChunksBounded
  <1>2. QED
    BY <1>1, Invariance, PTL

\* The token of a session that is open on the server stays in the DB, so that
\* the next start can cancel it.
THEOREM OpenSessionsAreKnown == Spec => TokenOutlivesSession
  <1>1. ASSUME IInv, [Next]_vars, token, ~token'
        PROVE  server # "open"
    <2>1. Deletes
      BY <1>1, OnlyDeletes DEF IInv
    <2>2. QED
      BY <1>1, <2>1 DEF IInv, TokenInv, DeletesClosed, Deletes, DeleteToken, CancelForgets, CleanDeletes
  <1>2. IInv /\ [Next]_vars => [token /\ ~token' => server # "open"]_vars
    BY <1>1
  <1>3. QED
    BY <1>2, Invariance, PTL DEF Spec, TokenOutlivesSession
=============================================================================
