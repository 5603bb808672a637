--------------------------- MODULE UploadSession ---------------------------
(***************************************************************************)
(* The upload of a big file                                                *)
(* (jobs/network/upload_session/uploadsession.cpp): a job opens a session  *)
(* on the server, sends the file by chunks, which are jobs of their own,   *)
(* and asks the server to assemble them. The executor may abort it at any  *)
(* time from its own thread. The token of an open session is kept in the   *)
(* DB: a session interrupted by the end of the process is cancelled by     *)
(* the next start of the SyncPal (cleanOldUploadSessionTokens).            *)
(*                                                                         *)
(* The server is external: it receives chunks while the session is open,   *)
(* closes it once, and its answers may be lost.                            *)
(***************************************************************************)
EXTENDS Integers, FiniteSets

CONSTANTS
    TotalChunks,  \* _totalChunks
    Parallel,     \* _nbParalleleThread; chunks are jobs when it exceeds 1
    MaxFaults     \* bound on lost and refused requests, DB and read errors, crashes

Chunks == 1..TotalChunks

ASSUME UploadSessionAssumption ==
    TotalChunks \in Nat \ {0} /\ Parallel \in Nat \ {0, 1} /\ MaxFaults \in Nat

\* abort is called by the thread of the session and by the executor.
Threads == {"session", "executor"}

VARIABLES
    server,      \* the session on the server
    received,    \* the chunks it has received
    token,       \* the token of the session is in the DB
    pc,          \* where the thread of the session is
    next,        \* the next chunk to send
    readError,
    aborted,     \* _abort
    started,     \* _sessionStarted
    cancelled,   \* _sessionCancelled
    jobError,    \* _jobExecutionError
    exit,        \* _exitCode
    chunk,       \* the job of each chunk
    cut,         \* chunk jobs that were asked to stop
    ongoing,     \* _ongoingChunkJobs
    counter,     \* _threadCounter
    cancel,      \* where each thread is in cancelSession
    cleaner,     \* where cleanOldUploadSessionTokens is
    recorded,    \* the token has been stored in the DB
    faults       \* for the bound

remoteVars == <<server, received>>
chunkVars == <<chunk, cut, ongoing, counter>>
flagVars == <<aborted, started, cancelled, jobError>>
vars == <<remoteVars, token, pc, next, readError, flagVars, exit, chunkVars, cancel, cleaner,
          recorded, faults>>

TypeOK ==
    /\ server \in {"none", "open", "finished", "cancelled"}
    /\ received \subseteq Chunks
    /\ token \in BOOLEAN /\ recorded \in BOOLEAN
    /\ pc \in {"queued", "init", "start", "insert", "loop", "wait", "waitAll", "sent", "close",
               "delete", "abort", "cancel", "end", "crashed"}
    /\ next \in 1..(TotalChunks + 1)
    /\ readError \in BOOLEAN /\ aborted \in BOOLEAN /\ started \in BOOLEAN
    /\ cancelled \in BOOLEAN /\ jobError \in BOOLEAN
    /\ exit \in {"Unknown", "Ok", "Error"}
    /\ chunk \in [Chunks -> {"none", "queued", "running", "ok", "failed", "reported", "over"}]
    /\ cut \subseteq Chunks /\ ongoing \subseteq Chunks
    /\ counter \in 0..TotalChunks
    /\ cancel \in [Threads -> {"no", "test", "set", "sweep", "request", "forget", "done"}]
    /\ cleaner \in {"idle", "delete"}
    /\ faults \in 0..MaxFaults

Init ==
    /\ server = "none" /\ received = {} /\ token = FALSE /\ recorded = FALSE
    /\ pc = "queued" /\ next = 1 /\ readError = FALSE
    /\ aborted = FALSE /\ started = FALSE /\ cancelled = FALSE /\ jobError = FALSE
    /\ exit = "Unknown"
    /\ chunk = [n \in Chunks |-> "none"] /\ cut = {} /\ ongoing = {} /\ counter = 0
    /\ cancel = [t \in Threads |-> "no"] /\ cleaner = "idle"
    /\ faults = 0

\* How a request ends: done; done, but the answer is lost; or not done.
Answers == {"done", "lost", "failed"}

Fault == faults < MaxFaults /\ faults' = faults + 1

Costs(answer) == IF answer = "done" THEN UNCHANGED faults ELSE Fault

\* uploadChunkCallback holds the mutex from its first write to its last.
MutexFree == \A n \in Chunks : chunk[n] # "reported"

(***************************************************************************)
(* runJob: after each of its steps the thread of the session looks at the  *)
(* result and at the abort flag.                                           *)
(***************************************************************************)
GoesTo(step) == pc' = IF aborted THEN "abort" ELSE step

\* A job aborted while it is in the queue is dropped by the job manager.
SessionRuns ==
    /\ pc = "queued"
    /\ pc' = IF aborted THEN "end" ELSE "init"
    /\ UNCHANGED <<remoteVars, token, next, readError, flagVars, exit, chunkVars, cancel, cleaner,
                   recorded, faults>>

\* initChunks fails for a file that would need too many chunks.
InitChunks(ok) ==
    /\ pc = "init"
    /\ IF ok THEN GoesTo("start") /\ UNCHANGED <<exit, faults>>
             ELSE pc' = "abort" /\ exit' = "Error" /\ Fault
    /\ UNCHANGED <<remoteVars, token, next, readError, flagVars, chunkVars, cancel, cleaner, recorded>>

StartSession(answer) ==
    /\ pc = "start" /\ Costs(answer)
    /\ server' = IF answer = "failed" THEN server ELSE "open"
    /\ IF answer = "done" THEN pc' = "insert" /\ UNCHANGED exit
                          ELSE pc' = "abort" /\ exit' = "Error"
    /\ UNCHANGED <<received, token, next, readError, flagVars, chunkVars, cancel, cleaner, recorded>>

\* A session whose token cannot be stored is not cancelled: it is not started.
InsertToken(ok) ==
    /\ pc = "insert"
    /\ IF ok
       THEN /\ token' = TRUE /\ recorded' = TRUE /\ started' = TRUE
            /\ GoesTo("loop") /\ UNCHANGED <<exit, faults>>
       ELSE /\ pc' = "abort" /\ exit' = "Error" /\ Fault
            /\ UNCHANGED <<token, recorded, started>>
    /\ UNCHANGED <<remoteVars, next, readError, aborted, cancelled, jobError, chunkVars, cancel, cleaner>>

(***************************************************************************)
(* sendChunks.                                                             *)
(***************************************************************************)
QueueChunk ==
    /\ pc = "loop" /\ next <= TotalChunks /\ ~aborted /\ ~jobError /\ MutexFree
    /\ counter' = counter + 1
    /\ ongoing' = ongoing \cup {next}
    /\ chunk' = [chunk EXCEPT ![next] = "queued"]
    /\ next' = next + 1
    /\ pc' = "wait"
    /\ UNCHANGED <<remoteVars, token, readError, flagVars, exit, cut, cancel, cleaner, recorded, faults>>

ReadFails ==
    /\ pc = "loop" /\ next <= TotalChunks /\ ~aborted /\ ~jobError /\ Fault
    /\ readError' = TRUE /\ pc' = "sent"
    /\ UNCHANGED <<remoteVars, token, next, flagVars, exit, chunkVars, cancel, cleaner, recorded>>

LeaveLoop ==
    /\ pc = "loop" /\ (next > TotalChunks \/ aborted \/ jobError)
    /\ pc' = IF aborted \/ jobError THEN "sent" ELSE "waitAll"
    /\ UNCHANGED <<remoteVars, token, next, readError, flagVars, exit, chunkVars, cancel, cleaner,
                   recorded, faults>>

\* Mutants of LeavesWait: it waits until the last chunk is queued only, or for
\* the jobs whatever becomes of the session.
LeavesWaitEarly(all) == counter <= Parallel \/ aborted \/ jobError
LeavesWaitIdle(all) == counter <= IF all THEN 0 ELSE Parallel

\* waitForJobsToComplete reads without the mutex.
LeavesWait(all) == counter <= (IF all THEN 0 ELSE Parallel) \/ aborted \/ jobError

WaitForJobsToComplete ==
    /\ \/ pc = "wait" /\ LeavesWait(FALSE) /\ pc' = "loop"
       \/ pc = "waitAll" /\ LeavesWait(TRUE) /\ pc' = "sent"
    /\ UNCHANGED <<remoteVars, token, next, readError, flagVars, exit, chunkVars, cancel, cleaner,
                   recorded, faults>>

\* The last reads of the abort and error flags decide.
SendChunksReturns ==
    /\ pc = "sent"
    /\ pc' = IF aborted \/ jobError \/ readError THEN "abort" ELSE "close"
    /\ exit' = CASE aborted -> "Ok" [] jobError -> exit [] readError -> "Error" [] OTHER -> "Ok"
    /\ UNCHANGED <<remoteVars, token, next, readError, flagVars, chunkVars, cancel, cleaner, recorded, faults>>

(***************************************************************************)
(* closeSession, then the end of the job. The exit code of a refused       *)
(* finish request is not kept.                                             *)
(***************************************************************************)
CloseSession(answer) ==
    /\ pc = "close" /\ Costs(answer)
    /\ answer # "failed" => server = "open"
    /\ server' = IF answer = "failed" THEN server ELSE "finished"
    /\ pc' = IF answer = "done" THEN "delete" ELSE "abort"
    /\ UNCHANGED <<received, token, next, readError, flagVars, exit, chunkVars, cancel, cleaner, recorded>>

\* The session was cancelled on the server by the abort of the executor.
CloseRefused ==
    /\ pc = "close" /\ server # "open" /\ pc' = "abort"
    /\ UNCHANGED <<remoteVars, token, next, readError, flagVars, exit, chunkVars, cancel, cleaner,
                   recorded, faults>>

DeleteToken(ok) ==
    /\ pc = "delete"
    /\ IF ok THEN token' = FALSE /\ GoesTo("end") /\ UNCHANGED <<exit, faults>>
             ELSE pc' = "abort" /\ exit' = "Error" /\ Fault /\ UNCHANGED token
    /\ UNCHANGED <<remoteVars, next, readError, flagVars, chunkVars, cancel, cleaner, recorded>>

\* runJob aborts the session itself, and ends when cancelSession has returned.
SessionAborts ==
    /\ pc = "abort" /\ cancel["session"] = "no"
    /\ aborted' = TRUE /\ cancel' = [cancel EXCEPT !["session"] = "test"]
    /\ pc' = "cancel"
    /\ UNCHANGED <<remoteVars, token, next, readError, started, cancelled, jobError, exit, chunkVars,
                   cleaner, recorded, faults>>

SessionEnds ==
    /\ pc = "cancel" /\ cancel["session"] = "done" /\ pc' = "end"
    /\ UNCHANGED <<remoteVars, token, next, readError, flagVars, exit, chunkVars, cancel, cleaner,
                   recorded, faults>>

ExecutorAborts ==
    /\ pc # "crashed" /\ cancel["executor"] = "no"
    /\ aborted' = TRUE /\ cancel' = [cancel EXCEPT !["executor"] = "test"]
    /\ UNCHANGED <<remoteVars, token, pc, next, readError, started, cancelled, jobError, exit,
                   chunkVars, cleaner, recorded, faults>>

(***************************************************************************)
(* cancelSession, by the session itself and by the executor.               *)
(***************************************************************************)
CancelTest(t) ==
    /\ cancel[t] = "test"
    /\ cancel' = [cancel EXCEPT ![t] = IF ~started \/ cancelled THEN "done" ELSE "set"]
    /\ UNCHANGED <<remoteVars, token, pc, next, readError, flagVars, exit, chunkVars, cleaner, recorded, faults>>

CancelSet(t) ==
    /\ cancel[t] = "set"
    /\ cancelled' = TRUE /\ cancel' = [cancel EXCEPT ![t] = "sweep"]
    /\ UNCHANGED <<remoteVars, token, pc, next, readError, aborted, started, jobError, exit, chunkVars,
                   cleaner, recorded, faults>>

CancelChunks(t) ==
    /\ cancel[t] = "sweep" /\ MutexFree
    /\ cut' = cut \cup ongoing
    /\ cancel' = [cancel EXCEPT ![t] = "request"]
    /\ UNCHANGED <<remoteVars, token, pc, next, readError, flagVars, exit, chunk, ongoing, counter,
                   cleaner, recorded, faults>>

\* Mutant: the token is forgotten whatever the server answers.
CancelRequestForgets(t, answer) ==
    /\ cancel[t] = "request" /\ Costs(answer)
    /\ answer # "failed" => server = "open"
    /\ server' = IF answer = "failed" THEN server ELSE "cancelled"
    /\ exit' = IF answer = "done" THEN exit ELSE "Error"
    /\ cancel' = [cancel EXCEPT ![t] = "forget"]
    /\ UNCHANGED <<received, token, pc, next, readError, flagVars, chunkVars, cleaner, recorded>>

CancelRequest(t, answer) ==
    /\ cancel[t] = "request" /\ Costs(answer)
    /\ answer # "failed" => server = "open"
    /\ server' = IF answer = "failed" THEN server ELSE "cancelled"
    /\ exit' = IF answer = "done" THEN exit ELSE "Error"
    /\ cancel' = [cancel EXCEPT ![t] = IF answer = "done" THEN "forget" ELSE "done"]
    /\ UNCHANGED <<received, token, pc, next, readError, flagVars, chunkVars, cleaner, recorded>>

\* The server has finished the session, or cancelled it for the other thread.
CancelRefused(t) ==
    /\ cancel[t] = "request" /\ server # "open"
    /\ exit' = "Error" /\ cancel' = [cancel EXCEPT ![t] = "done"]
    /\ UNCHANGED <<remoteVars, token, pc, next, readError, flagVars, chunkVars, cleaner, recorded, faults>>

CancelForgets(t, ok) ==
    /\ cancel[t] = "forget"
    /\ cancel' = [cancel EXCEPT ![t] = "done"]
    /\ IF ok THEN token' = FALSE /\ UNCHANGED <<exit, faults>>
             ELSE exit' = "Error" /\ Fault /\ UNCHANGED token
    /\ UNCHANGED <<remoteVars, pc, next, readError, flagVars, chunkVars, cleaner, recorded>>

CancelSession(t) ==
    \/ CancelTest(t) \/ CancelSet(t) \/ CancelChunks(t) \/ CancelRefused(t)
    \/ \E answer \in Answers : CancelRequest(t, answer)
    \/ \E ok \in BOOLEAN : CancelForgets(t, ok)

(***************************************************************************)
(* The chunk jobs, on the threads of the job manager.                      *)
(***************************************************************************)
ChunkStarts(n) ==
    /\ chunk[n] = "queued"
    /\ chunk' = [chunk EXCEPT ![n] = IF n \in cut THEN "over" ELSE "running"]
    /\ UNCHANGED <<remoteVars, token, pc, next, readError, flagVars, exit, cut, ongoing, counter,
                   cancel, cleaner, recorded, faults>>

\* The server takes chunks while the session is open. The job of a chunk that
\* is aborted during its request ends without an error.
ChunkAnswered(n, answer) ==
    /\ chunk[n] = "running"
    /\ received' = IF answer # "failed" /\ server = "open" THEN received \cup {n} ELSE received
    /\ IF n \in cut
       THEN chunk' = [chunk EXCEPT ![n] = "ok"] /\ UNCHANGED faults
       ELSE IF server = "open"
       THEN chunk' = [chunk EXCEPT ![n] = IF answer = "done" THEN "ok" ELSE "failed"] /\ Costs(answer)
       ELSE chunk' = [chunk EXCEPT ![n] = "failed"] /\ UNCHANGED faults
    /\ UNCHANGED <<server, token, pc, next, readError, flagVars, exit, cut, ongoing, counter,
                   cancel, cleaner, recorded>>

\* uploadChunkCallback, whose writes the thread of the session reads as they
\* come: the failure first, then the number of jobs left.
ChunkReports(n) ==
    /\ chunk[n] \in {"ok", "failed"} /\ MutexFree
    /\ ongoing' = ongoing \ {n}
    /\ IF chunk[n] = "failed" THEN jobError' = TRUE /\ exit' = "Error" ELSE UNCHANGED <<jobError, exit>>
    /\ chunk' = [chunk EXCEPT ![n] = "reported"]
    /\ UNCHANGED <<remoteVars, token, pc, next, readError, aborted, started, cancelled, cut, counter,
                   cancel, cleaner, recorded, faults>>

ChunkLeaves(n) ==
    /\ chunk[n] = "reported"
    /\ counter' = counter - 1
    /\ chunk' = [chunk EXCEPT ![n] = "over"]
    /\ UNCHANGED <<remoteVars, token, pc, next, readError, flagVars, exit, cut, ongoing, cancel,
                   cleaner, recorded, faults>>

ChunkJob(n) ==
    \/ ChunkStarts(n) \/ ChunkReports(n) \/ ChunkLeaves(n)
    \/ \E answer \in Answers : ChunkAnswered(n, answer)

(***************************************************************************)
(* The process ends at any moment; the server and the DB remain.           *)
(***************************************************************************)
Crash ==
    /\ pc # "crashed" /\ Fault
    /\ pc' = "crashed"
    /\ chunk' = [n \in Chunks |-> "over"] /\ cut' = {} /\ ongoing' = {} /\ counter' = 0
    /\ cancel' = [t \in Threads |-> "done"] /\ cleaner' = "idle"
    /\ UNCHANGED <<remoteVars, token, next, readError, flagVars, exit, recorded>>

\* The SyncPal is started or resumed when no thread works on the session.
Quiet == pc \in {"end", "crashed"} /\ \A t \in Threads : cancel[t] \in {"no", "done"}

\* Mutant: the tokens are deleted, and the server is not asked for anything.
CleanOnlyDeletes(answer) ==
    /\ Quiet /\ cleaner = "idle" /\ token /\ Costs(answer)
    /\ cleaner' = "delete"
    /\ UNCHANGED <<remoteVars, token, pc, next, readError, flagVars, exit, chunkVars, cancel, recorded>>

\* cleanOldUploadSessionTokens asks the server to cancel every session of the
\* DB, and gives up for lack of network. The server refuses for a session that
\* is closed already.
CleanCancels(answer) ==
    /\ Quiet /\ cleaner = "idle" /\ token /\ Costs(answer)
    /\ server' = IF server = "open" /\ answer # "failed" THEN "cancelled" ELSE server
    /\ cleaner' = IF answer = "done" THEN "delete" ELSE "idle"
    /\ UNCHANGED <<received, token, pc, next, readError, flagVars, exit, chunkVars, cancel, recorded>>

CleanDeletes ==
    /\ cleaner = "delete"
    /\ token' = FALSE /\ cleaner' = "idle"
    /\ UNCHANGED <<remoteVars, pc, next, readError, flagVars, exit, chunkVars, cancel, recorded, faults>>

Session ==
    \/ SessionRuns \/ QueueChunk \/ ReadFails \/ LeaveLoop \/ WaitForJobsToComplete
    \/ SendChunksReturns \/ CloseRefused \/ SessionAborts \/ SessionEnds
    \/ \E ok \in BOOLEAN : InitChunks(ok) \/ InsertToken(ok) \/ DeleteToken(ok)
    \/ \E answer \in Answers : StartSession(answer) \/ CloseSession(answer)

Cleaner == CleanDeletes \/ \E answer \in Answers : CleanCancels(answer)

Next ==
    \/ Session \/ ExecutorAborts \/ Cleaner \/ Crash
    \/ \E t \in Threads : CancelSession(t)
    \/ \E n \in Chunks : ChunkJob(n)

Spec == Init /\ [][Next]_vars

\* The threads run, the job manager serves the chunk jobs (UploadSessionLimit
\* of module JobManager keeps threads for them), every request is answered or
\* times out, and the SyncPal is started again.
FairSpec ==
    /\ Spec
    /\ WF_vars(Session) /\ WF_vars(Cleaner)
    /\ \A t \in Threads : WF_vars(CancelSession(t))
    /\ \A n \in Chunks : WF_vars(ChunkJob(n))

(***************************************************************************)
(* Properties.                                                             *)
(***************************************************************************)
\* The server is asked to assemble the file only when it has every chunk: a
\* chunk that failed, or was cut by an abort in another thread, is seen by the
\* reads that follow the end of the last job, which take no lock.
FinishedIsComplete == server = "finished" => received = Chunks

\* The DB forgets the token of a session only when the session is closed on the
\* server: otherwise nothing would ever cancel it.
TokenOutlivesSession == [][token /\ ~token' => server # "open"]_vars

\* No more chunks are read into memory than there are parallel jobs, plus the
\* one that is queued before the thread waits.
ChunksBounded == Cardinality({n \in Chunks : chunk[n] \in {"queued", "running"} /\ n \notin cut}) <= Parallel + 1

\* The thread of the session, which occupies one of the pool's, always ends.
SessionTerminates == pc # "queued" ~> pc \in {"end", "crashed"}

\* A session whose token was recorded is closed in the end, by its own thread,
\* by the executor or by the next start, whatever is lost in between.
NoSessionForgotten == recorded /\ server = "open" ~> server # "open"
=============================================================================
