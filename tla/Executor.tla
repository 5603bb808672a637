------------------------------ MODULE Executor ------------------------------
(***************************************************************************)
(* ExecutorWorker (propagation/executor/executorworker.cpp): the thread    *)
(* that takes the sorted operations one by one, executes the creations of  *)
(* directories, the moves and the deletions itself, gives the creations    *)
(* and editions of files to the job manager, and handles their results.    *)
(* When the synchronization is paused the jobs in progress are cancelled   *)
(* and their operations put back at the front of the list.                 *)
(*                                                                         *)
(* The job manager is what module JobService promises, which JobManager    *)
(* implements. Its pool threads tell the executor that a job is over       *)
(* (executorCallback), in an order of their own.                           *)
(***************************************************************************)
EXTENDS WorkerFlags, Integers, Sequences, FiniteSets, Functions

CONSTANTS
    NbOps,       \* operations are numbered in the order of the sorter
    AsyncOps,    \* those executed by a job
    ParentOp,    \* the operation that each operation must follow, or NoOp
    Jobs,        \* the jobs, in the order of their creation
    MaxManaged,  \* maxNbThreads() * 2
    Outcomes,    \* how operations may end
    MaxPauses    \* bound on the pauses

Ops == 1..NbOps
NoOp == 0
NoJob == 0

\* "done": the change is in the DB and in the trees; "skipped": the item is
\* blacklisted; "restart", "error": the propagation is given up.
Endings == {"done", "skipped", "restart", "error"}

\* Every rule of the sorter makes an operation the child of a move, of a
\* deletion or of the creation of a directory, and puts it after its parent.
ASSUME ExecutorAssumption ==
    /\ NbOps \in Nat /\ AsyncOps \subseteq Ops
    /\ ParentOp \in [Ops -> {NoOp} \cup (Ops \ AsyncOps)]
    /\ \A o \in Ops : ParentOp[o] < o
    /\ Jobs \subseteq Nat \ {0} /\ IsFiniteSet(Jobs)
    /\ MaxManaged \in Nat /\ MaxPauses \in Nat
    /\ Outcomes \subseteq Endings

VARIABLES
    flags,       \* of this worker
    pc,          \* where its thread is
    opList,      \* operations still to start
    ongoing,     \* _ongoingJobs
    jobOp,       \* _jobToSyncOpMap
    terminated,  \* _terminatedJobs
    handled,     \* operations whose result is known and propagated
    hasError,
    exitCode,    \* _executorExitCode
    restart,     \* _restart of the SyncPal
    status, parent,  \* of the jobs, see JobService
    aborted,     \* jobs that were asked to stop
    result,      \* how each finished job has ended
    pauses       \* for the bound

Service == INSTANCE JobService
             WITH Sessions <- {}, MaxSessions <- 0, NoParent <- NoJob

serviceVars == <<status, parent, result>>
outcomeVars == <<handled, hasError, exitCode, restart>>
vars == <<flags, pc, opList, ongoing, jobOp, terminated, outcomeVars, serviceVars, aborted, pauses>>

TypeOK ==
    /\ flags \in Flags
    /\ pc \in {"delete", "stop", "pause", "pop", "wait", "waitPause", "waitDelete", "end", "done"}
    /\ opList \in Seq(Ops)
    /\ ongoing \subseteq Jobs
    /\ jobOp \in [Jobs -> Ops \cup {NoOp}]
    /\ terminated \in Seq(Jobs)
    /\ handled \subseteq Ops
    /\ hasError \in BOOLEAN /\ restart \in BOOLEAN
    /\ exitCode \in {"Unknown", "Ok", "Error"}
    /\ status \in [Jobs -> {"idle", "submitted", "running", "over"}]
    /\ parent \in [Jobs -> Jobs \cup {NoJob}]
    /\ aborted \subseteq Jobs
    /\ result \in [Jobs -> Endings \cup {"none"}]
    /\ pauses \in 0..MaxPauses

Init ==
    /\ flags = Start(FreshWorker)
    /\ pc = "delete"
    /\ opList = [i \in Ops |-> i]
    /\ ongoing = {} /\ terminated = <<>>
    /\ jobOp = [j \in Jobs |-> NoOp]
    /\ handled = {} /\ hasError = FALSE /\ exitCode = "Unknown" /\ restart = FALSE
    /\ Service!Init
    /\ aborted = {}
    /\ result = [j \in Jobs |-> "none"]
    /\ pauses = 0

(***************************************************************************)
(* The job manager and its pool threads.                                   *)
(***************************************************************************)
JobStarts(j) ==
    /\ Service!Start(j)
    /\ UNCHANGED <<flags, pc, opList, ongoing, jobOp, terminated, outcomeVars, result, aborted, pauses>>

\* An aborted job may still succeed. It calls back like any other.
JobFinishes(j, outcome) ==
    /\ Service!Finish(j)
    /\ result' = [result EXCEPT ![j] = outcome]
    /\ terminated' = Append(terminated, j)
    /\ UNCHANGED <<flags, pc, opList, ongoing, jobOp, outcomeVars, aborted, pauses>>

\* A job aborted before it starts is dropped without a callback.
JobDropped(j) ==
    /\ j \in aborted
    /\ Service!Discard({j}) /\ status[j] = "submitted"
    /\ UNCHANGED <<flags, pc, opList, ongoing, jobOp, terminated, outcomeVars, result, aborted, pauses>>

(***************************************************************************)
(* cancelAllOngoingJobs, and how a result is handled.                      *)
(***************************************************************************)
OngoingOps == {jobOp[j] : j \in ongoing}

\* The hash map of the jobs decides in which order they are put back.
Orders(S) == Bijection(1..Cardinality(S), S)

CancelAllOngoingJobs ==
    /\ aborted' = aborted \cup ongoing
    /\ ongoing' = {} /\ opList' = <<>>

\* Mutants of RescheduleAllOngoingJobs: the operations are not put back, or the
\* cancelled jobs are still waited for.
RescheduleNothing ==
    /\ aborted' = aborted \cup ongoing
    /\ ongoing' = {} /\ UNCHANGED opList

RescheduleAndWait ==
    /\ aborted' = aborted \cup ongoing
    /\ UNCHANGED ongoing
    /\ \E order \in Orders(OngoingOps) : opList' = order \o opList

RescheduleAllOngoingJobs ==
    /\ aborted' = aborted \cup ongoing
    /\ ongoing' = {}
    /\ \E order \in Orders(OngoingOps) : opList' = order \o opList

\* The exit code: NeedRestart is not an error, an error keeps its code.
CodeOf(outcome) == IF outcome = "error" THEN "Error" ELSE "Ok"
GivesUp(outcome) == outcome \in {"restart", "error"}

\* Mutant of Fails: the restart is not asked for.
FailsQuietly(outcome) ==
    /\ hasError' = TRUE /\ exitCode' = CodeOf(outcome)
    /\ UNCHANGED restart
    /\ CancelAllOngoingJobs

Fails(outcome) ==
    /\ hasError' = TRUE /\ exitCode' = CodeOf(outcome)
    /\ restart' = (restart \/ outcome = "restart")
    /\ CancelAllOngoingJobs

(***************************************************************************)
(* deleteFinishedAsyncJobs: the results are handled in the order of the    *)
(* callbacks until one of them gives up; the others are forgotten, and so  *)
(* are those of the jobs cancelled in the meantime.                        *)
(***************************************************************************)
\* Mutant of Answered: only the first result is handled.
AnsweredFirst == {j \in ongoing : terminated # <<>> /\ j = terminated[1]}

Answered == ongoing \cap Range(terminated)

GivingUp == {i \in DOMAIN terminated : terminated[i] \in ongoing /\ GivesUp(result[terminated[i]])}

DeleteFinishedAsyncJobs(next) ==
    /\ terminated' = <<>>
    /\ IF GivingUp = {}
       THEN /\ handled' = handled \cup {jobOp[j] : j \in Answered}
            /\ ongoing' = ongoing \ Answered
            /\ pc' = next
            /\ UNCHANGED <<opList, hasError, exitCode, restart, aborted>>
       ELSE \E i \in GivingUp :
            /\ \A k \in GivingUp : i <= k
            /\ handled' = handled \cup {jobOp[terminated[k]] : k \in {m \in 1..(i - 1) : terminated[m] \in ongoing}}
            /\ Fails(result[terminated[i]])
            /\ pc' = "wait"
    /\ UNCHANGED <<flags, jobOp, serviceVars, pauses>>

(***************************************************************************)
(* The thread of the executor: the loop that creates the jobs.             *)
(***************************************************************************)
DeleteFinished ==
    /\ pc = "delete"
    /\ IF opList = <<>>
       THEN pc' = "wait" /\ UNCHANGED <<flags, opList, ongoing, jobOp, terminated, outcomeVars,
                                        serviceVars, aborted, pauses>>
       ELSE DeleteFinishedAsyncJobs("stop")

TestStop ==
    /\ pc = "stop"
    /\ IF flags.stopAsked
       THEN CancelAllOngoingJobs /\ pc' = "wait"
       ELSE pc' = "pause" /\ UNCHANGED <<opList, ongoing, aborted>>
    /\ UNCHANGED <<flags, jobOp, terminated, outcomeVars, serviceVars, pauses>>

\* The loop that waits for the jobs is left when there are none, and the outer
\* loop when a pause has put nothing back in the list.
WaitForAllJobsToFinish ==
    /\ pc = "wait"
    /\ IF ongoing = {}
       THEN pc' = (IF opList = <<>> THEN "end" ELSE "delete") /\ UNCHANGED <<opList, ongoing, aborted>>
       ELSE IF flags.stopAsked
            THEN CancelAllOngoingJobs /\ pc' = "end"
            ELSE pc' = "waitPause" /\ UNCHANGED <<opList, ongoing, aborted>>
    /\ UNCHANGED <<flags, jobOp, terminated, outcomeVars, serviceVars, pauses>>

\* The pause loop of both loops. A stop request clears isPaused.
EnterPause ==
    /\ pc \in {"pause", "waitPause"} /\ flags.pauseAsked /\ ~flags.isPaused
    /\ flags' = SetPauseDone(flags)
    /\ RescheduleAllOngoingJobs
    /\ UNCHANGED <<pc, jobOp, terminated, outcomeVars, serviceVars, pauses>>

LeavePause ==
    /\ pc \in {"pause", "waitPause"} /\ flags.isPaused /\ flags.unpauseAsked
    /\ flags' = SetUnpauseDone(flags)
    /\ UNCHANGED <<pc, opList, ongoing, jobOp, terminated, outcomeVars, serviceVars, aborted, pauses>>

PassPause ==
    /\ pc \in {"pause", "waitPause"} /\ ~MustPause(flags)
    /\ pc' = IF pc = "pause" THEN "pop" ELSE "waitDelete"
    /\ UNCHANGED <<flags, opList, ongoing, jobOp, terminated, outcomeVars, serviceVars, aborted, pauses>>

\* countManagedJobs: the jobs the manager has not finished with.
Managed == {j \in Jobs : status[j] \in {"submitted", "running"}}

WaitForJobs ==
    /\ pc = "pop" /\ Cardinality(Managed) > MaxManaged
    /\ pc' = "delete"
    /\ UNCHANGED <<flags, opList, ongoing, jobOp, terminated, outcomeVars, serviceVars, aborted, pauses>>

PopOp == pc = "pop" /\ Cardinality(Managed) <= MaxManaged

\* manageJobDependencies: the first job of the parent operation, if it has one
\* (insert does not replace the job of an operation that is started again).
FirstJobOf(o) ==
    LET first == {j \in Jobs : jobOp[j] = o /\ \A k \in Jobs : jobOp[k] = o => j <= k}
    IN  IF first = {} THEN NoJob ELSE CHOOSE j \in first : TRUE

\* Mutant of CreateJob: directories, moves and deletions are jobs as well.
CreateJobForAnyOp(j) ==
    LET o == Head(opList)
    IN  /\ PopOp
        /\ \A k \in Jobs : k < j <=> status[k] # "idle"
        /\ Service!Submit(j, IF ParentOp[o] = NoOp THEN NoJob ELSE FirstJobOf(ParentOp[o]))
        /\ ongoing' = ongoing \cup {j}
        /\ jobOp' = [jobOp EXCEPT ![j] = o]
        /\ opList' = Tail(opList)
        /\ pc' = "delete"
        /\ UNCHANGED <<flags, terminated, outcomeVars, result, aborted, pauses>>

CreateJob(j) ==
    LET o == Head(opList)
    IN  /\ PopOp /\ o \in AsyncOps
        /\ \A k \in Jobs : k < j <=> status[k] # "idle"
        /\ Service!Submit(j, IF ParentOp[o] = NoOp THEN NoJob ELSE FirstJobOf(ParentOp[o]))
        /\ ongoing' = ongoing \cup {j}
        /\ jobOp' = [jobOp EXCEPT ![j] = o]
        /\ opList' = Tail(opList)
        /\ pc' = "delete"
        /\ UNCHANGED <<flags, terminated, outcomeVars, result, aborted, pauses>>

\* A directory is created, an item moved or deleted, before the next operation
\* is looked at; so is a file operation that needs no job or cannot have one.
ExecuteOp(outcome) ==
    /\ PopOp
    /\ IF GivesUp(outcome)
       THEN Fails(outcome) /\ pc' = "wait" /\ UNCHANGED handled
       ELSE /\ handled' = handled \cup {Head(opList)}
            /\ opList' = Tail(opList)
            /\ pc' = "delete"
            /\ UNCHANGED <<ongoing, hasError, exitCode, restart, aborted>>
    /\ UNCHANGED <<flags, jobOp, terminated, serviceVars, pauses>>

\* waitForAllJobsToFinish.
WaitDelete ==
    /\ pc = "waitDelete"
    /\ DeleteFinishedAsyncJobs("wait")

\* The list of the SyncPal is cleared, see ExecutorEnds in module SyncPal.
Done ==
    /\ pc = "end" /\ pc' = "done"
    /\ exitCode' = IF hasError THEN exitCode ELSE "Ok"
    /\ flags' = SetDone(flags)
    /\ UNCHANGED <<opList, ongoing, jobOp, terminated, handled, hasError, restart, serviceVars,
                   aborted, pauses>>

Executor ==
    \/ DeleteFinished \/ TestStop \/ WaitForAllJobsToFinish \/ EnterPause \/ LeavePause \/ PassPause
    \/ WaitForJobs \/ WaitDelete \/ Done
    \/ \E j \in Jobs : CreateJob(j)
    \/ \E outcome \in Outcomes : ExecuteOp(outcome)

(***************************************************************************)
(* The synchronization loop, which pauses, resumes and stops its workers.  *)
(***************************************************************************)
AskPause ==
    /\ pc # "done" /\ pauses < MaxPauses
    /\ flags' = Pause(flags) /\ pauses' = pauses + 1
    /\ UNCHANGED <<pc, opList, ongoing, jobOp, terminated, outcomeVars, serviceVars, aborted>>

AskUnpause ==
    /\ flags' = Unpause(flags)
    /\ UNCHANGED <<pc, opList, ongoing, jobOp, terminated, outcomeVars, serviceVars, aborted, pauses>>

AskStop ==
    /\ flags' = Stop(flags)
    /\ UNCHANGED <<pc, opList, ongoing, jobOp, terminated, outcomeVars, serviceVars, aborted, pauses>>

JobManager(j) ==
    \/ JobStarts(j) \/ JobDropped(j)
    \/ \E outcome \in Outcomes : JobFinishes(j, outcome)

Next ==
    \/ Executor
    \/ \E j \in Jobs : JobManager(j)
    \/ AskPause \/ AskUnpause \/ AskStop

Spec == Init /\ [][Next]_vars

\* The thread is scheduled, the job manager serves every job (EveryJobIsAnswered
\* of module JobManager), and every pause is followed by a resume.
FairSpec ==
    /\ Spec
    /\ WF_vars(Executor)
    /\ \A j \in Jobs : WF_vars(JobManager(j))
    /\ WF_vars(AskUnpause)

(***************************************************************************)
(* Properties.                                                             *)
(***************************************************************************)
\* No operation is forgotten when jobs are cancelled and their operations put
\* back, when results arrive late, or when the list is empty for a while: each
\* is handled, in progress or still to start, and none is left at the end.
NoOpForgotten ==
    ~hasError /\ ~flags.stopAsked /\ pc # "done" =>
        /\ Ops = handled \cup OngoingOps \cup Range(opList)
        /\ pc = "end" => handled = Ops

\* No operation is in progress twice, put back while its job is still waited
\* for, or started again after its result was propagated.
NoOpTwice ==
    /\ \A i, k \in DOMAIN opList : opList[i] = opList[k] => i = k
    /\ \A j, k \in ongoing : jobOp[j] = jobOp[k] => j = k
    /\ Range(opList) \cap OngoingOps = {}
    /\ handled \cap (OngoingOps \cup Range(opList)) = {}

\* The executor never waits for a job that will not call back: a job it waits
\* for was not aborted, and if it is over its callback is still to be read.
OngoingJobsAnswer ==
    \A j \in ongoing : /\ j \notin aborted
                       /\ status[j] \notin {"submitted", "running"} => j \in Range(terminated)

\* An operation is started only when the operation it depends on is handled,
\* whatever pauses have put back in the list: the order of the sorter holds
\* although the jobs themselves are given no parent.
ParentOpFirst ==
    \A o \in handled \cup OngoingOps : ParentOp[o] # NoOp => ParentOp[o] \in handled

\* Whatever results were dropped with the one that gave up, and whatever job was
\* cancelled with it, the loop knows: it reads a success only if everything was
\* handled, unless the synchronization is to start again.
SuccessIsWhole ==
    pc = "end" /\ ~flags.stopAsked /\ exitCode # "Error" /\ ~restart => handled = Ops

\* The executor ends: it never waits for ever for jobs, for the limit of jobs
\* or in a pause that is ended.
ExecutionEnds == <>(pc = "done")
=============================================================================
