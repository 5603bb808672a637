----------------------------- MODULE JobManager -----------------------------
(***************************************************************************)
(* The job manager of the synchronisation engine                           *)
(* (src/src/libsyncengine/jobs/jobmanager.cpp, abstractjob.cpp): one       *)
(* thread, JobManager::run, moves jobs from a priority queue to the        *)
(* threads of a pool, parks in `pending' those whose parent job or whose   *)
(* share of the pool is not free yet, and forgets a job when it has        *)
(* called back.                                                            *)
(*                                                                         *)
(* An action is one critical section of JobManager::_mutex, or one step    *)
(* of a pool thread between two of them.                                   *)
(***************************************************************************)
EXTENDS Integers, FiniteSets

CONSTANTS
    MaxJobs,             \* bound: jobs are numbered 0 .. MaxJobs-1 (AbstractJob::_nextJobId)
    Capacity,            \* threads of Poco::ThreadPool::defaultPool()
    UploadSessionShare,  \* upload sessions may use one thread in UploadSessionShare (10 in the code)
    UploadSessions,      \* the jobs that are UploadSession objects
    Priorities,          \* the Poco::Thread priorities the callers use
    StartFailures        \* the jobs for which the pool may fail to create a thread

Jobs == 0 .. MaxJobs - 1

(***************************************************************************)
(* threadPoolMinCapacity (10) is what makes the last conjunct true.        *)
(***************************************************************************)
ASSUME JobManagerAssumption ==
    /\ MaxJobs \in Nat
    /\ Capacity \in Nat
    /\ UploadSessionShare \in Nat \ {0}
    /\ UploadSessions \subseteq Jobs
    /\ Priorities \subseteq Nat
    /\ StartFailures \subseteq Jobs
    /\ Capacity >= UploadSessionShare

MaxUploadSessions == Capacity \div UploadSessionShare

NoParent == -1

VARIABLES
    managed,      \* _managedJobs: the jobs the manager holds a reference to
    queued,       \* _queuedJobs: a priority queue, so a set ordered by Before
    pending,      \* _pendingJobs
    running,      \* _runningJobs
    parentOf,     \* AbstractJob::_parentJobId
    priorityOf,   \* the priority stored beside the job in _queuedJobs and _pendingJobs
    aborted,      \* the jobs whose AbstractJob::_abort is set
    phase,        \* where each job is in its own life
    pc,           \* where the thread of JobManager::run is
    uploadCount,  \* the local variable uploadSessionCount of JobManager::run
    stop          \* JobManager::_stop

jobVars == <<parentOf, priorityOf, aborted, phase>>
listVars == <<managed, queued, pending, running>>
managerVars == <<pc, uploadCount, stop>>
vars == <<jobVars, listVars, managerVars>>

(***************************************************************************)
(* created    not queued yet            waiting    queued or pending       *)
(* executing  its thread is in runJob   notified   additional callback run *)
(* leaving    main callback run, the pool thread not yet given back        *)
(* ended      the thread is given back                                     *)
(* cancelled  dropped before it started because it was aborted             *)
(* failed     startWithPriority threw: no thread will ever run it          *)
(***************************************************************************)
Phases == {"created", "waiting", "executing", "notified", "leaving", "ended",
           "cancelled", "failed"}

TypeOK ==
    /\ managed \subseteq Jobs
    /\ queued \subseteq Jobs
    /\ pending \subseteq Jobs
    /\ running \subseteq Jobs
    /\ parentOf \in [Jobs -> Jobs \cup {NoParent}]
    /\ priorityOf \in [Jobs -> Nat]
    /\ aborted \subseteq Jobs
    /\ phase \in [Jobs -> Phases]
    /\ pc \in {"count", "fill", "manage", "exited", "cleared"}
    /\ uploadCount \in Nat
    /\ stop \in BOOLEAN

Init ==
    /\ managed = {} /\ queued = {} /\ pending = {} /\ running = {}
    /\ parentOf = [j \in Jobs |-> NoParent]
    /\ priorityOf = [j \in Jobs |-> 0]
    /\ aborted = {}
    /\ phase = [j \in Jobs |-> "created"]
    /\ pc = "count"
    /\ uploadCount = 0
    /\ stop = FALSE

-----------------------------------------------------------------------------
(***************************************************************************)
(* Callers.                                                                *)
(***************************************************************************)

(***************************************************************************)
(* What the callers of queueAsyncJob guarantee: a parent is a job created  *)
(* and queued earlier, with the same priority (the executor, the only      *)
(* caller that sets parents, uses PRIO_NORMAL for all its jobs). Nothing   *)
(* is queued after clear: AppServer::onCleanup stops every SyncPal first.  *)
(***************************************************************************)
LegalParent(j, p, prio) ==
    \/ p = NoParent
    \/ p \in Jobs /\ p < j /\ phase[p] # "created" /\ priorityOf[p] = prio

QueueAsyncJob(j, p, prio) ==
    /\ phase[j] = "created"
    /\ pc # "cleared"
    /\ LegalParent(j, p, prio)
    /\ queued' = queued \cup {j}
    /\ managed' = managed \cup {j}
    /\ parentOf' = [parentOf EXCEPT ![j] = p]
    /\ priorityOf' = [priorityOf EXCEPT ![j] = prio]
    /\ phase' = [phase EXCEPT ![j] = "waiting"]
    /\ UNCHANGED <<pending, running, aborted, managerVars>>

(***************************************************************************)
(* AbstractJob::abort: the owner of a job sets a flag, holding no lock.    *)
(***************************************************************************)
Abort(j) ==
    /\ phase[j] # "created"
    /\ aborted' = aborted \cup {j}
    /\ UNCHANGED <<listVars, managerVars, parentOf, priorityOf, phase>>

Stop ==
    /\ ~stop
    /\ stop' = TRUE
    /\ UNCHANGED <<jobVars, listVars, pc, uploadCount>>

(***************************************************************************)
(* JobManager::clear joins the manager's thread, then empties the          *)
(* collections. Pool threads may still be executing jobs.                  *)
(***************************************************************************)
Clear ==
    /\ pc = "exited"
    /\ pc' = "cleared"
    /\ managed' = {} /\ queued' = {} /\ pending' = {} /\ running' = {}
    /\ UNCHANGED <<jobVars, uploadCount, stop>>

-----------------------------------------------------------------------------
(***************************************************************************)
(* Pool threads: AbstractJob::run.                                         *)
(***************************************************************************)

Busy == {j \in Jobs : phase[j] \in {"executing", "notified", "leaving"}}

ThreadAvailable == Cardinality(Busy) < Capacity

(* runJob returns and the additional callback tells the job's owner. *)
AdditionalCallback(j) ==
    /\ phase[j] = "executing"
    /\ phase' = [phase EXCEPT ![j] = "notified"]
    /\ UNCHANGED <<listVars, managerVars, parentOf, priorityOf, aborted>>

(* Mutant: the job stays in _runningJobs. *)
DefaultCallbackKeepsRunning(j) ==
    /\ phase[j] = "notified"
    /\ managed' = managed \ {j}
    /\ phase' = [phase EXCEPT ![j] = "leaving"]
    /\ UNCHANGED <<running, queued, pending, managerVars, parentOf, priorityOf, aborted>>

DefaultCallback(j) ==
    /\ phase[j] = "notified"
    /\ managed' = managed \ {j}
    /\ running' = running \ {j}
    /\ phase' = [phase EXCEPT ![j] = "leaving"]
    /\ UNCHANGED <<queued, pending, managerVars, parentOf, priorityOf, aborted>>

ReleaseThread(j) ==
    /\ phase[j] = "leaving"
    /\ phase' = [phase EXCEPT ![j] = "ended"]
    /\ UNCHANGED <<listVars, managerVars, parentOf, priorityOf, aborted>>

-----------------------------------------------------------------------------
(***************************************************************************)
(* The thread of JobManager::run.                                          *)
(***************************************************************************)

(* Mutant: the last created job first, as std::priority_queue does by default. *)
BeforeHigherId(j, k) ==
    \/ priorityOf[j] > priorityOf[k]
    \/ priorityOf[j] = priorityOf[k] /\ j > k

(* JobPriorityCmp: higher priority first, then lower job id. *)
Before(j, k) ==
    \/ priorityOf[j] > priorityOf[k]
    \/ priorityOf[j] = priorityOf[k] /\ j < k

IsTop(j) == j \in queued /\ \A k \in queued \ {j} : Before(j, k)

BlockedByParent(j, parked) ==
    j \in managed /\ parentOf[j] \in running \cup parked

IsParentPendingOrRunning(j) == BlockedByParent(j, pending)

UploadSessionsFull(j) ==
    j \in UploadSessions /\ uploadCount >= MaxUploadSessions

CountUploadSession ==
    /\ pc = "count"
    /\ ~stop
    /\ uploadCount' = Cardinality(running \cap UploadSessions)
    /\ pc' = "fill"
    /\ UNCHANGED <<jobVars, listVars, stop>>

ExitThread ==
    /\ pc = "count"
    /\ stop
    /\ pc' = "exited"
    /\ UNCHANGED <<jobVars, listVars, uploadCount, stop>>

(* No thread, nothing queued or _stop: leave the inner loop. *)
LeaveFill ==
    /\ pc = "fill"
    /\ stop \/ ~ThreadAvailable \/ queued = {}
    /\ pc' = "manage"
    /\ UNCHANGED <<jobVars, listVars, uploadCount, stop>>

PopToPending(j) ==
    /\ pc = "fill" /\ ThreadAvailable
    /\ IsTop(j)
    /\ IsParentPendingOrRunning(j) \/ UploadSessionsFull(j)
    /\ queued' = queued \ {j}
    /\ pending' = pending \cup {j}
    /\ UNCHANGED <<jobVars, managed, running, managerVars>>

(***************************************************************************)
(* The pop followed by startJob, in the same critical section. The count   *)
(* of upload sessions is incremented whatever becomes of the job. The      *)
(* branch of startJob that catches NoThreadAvailableException is not       *)
(* here: this thread is the only client of the pool and has just seen a    *)
(* thread available.                                                       *)
(***************************************************************************)
CountStarted(j) ==
    uploadCount' = IF j \in UploadSessions THEN uploadCount + 1 ELSE uploadCount

Startable(j) ==
    /\ pc = "fill" /\ ThreadAvailable
    /\ IsTop(j)
    /\ ~IsParentPendingOrRunning(j) /\ ~UploadSessionsFull(j)

StartJob(j) ==
    /\ Startable(j)
    /\ j \notin aborted
    /\ queued' = queued \ {j}
    /\ running' = running \cup {j}
    /\ phase' = [phase EXCEPT ![j] = "executing"]
    /\ CountStarted(j)
    /\ UNCHANGED <<managed, pending, parentOf, priorityOf, aborted, pc, stop>>

(* Mutant: the aborted job stays managed. *)
DropAbortedJobStaysManaged(j) ==
    /\ Startable(j)
    /\ j \in aborted
    /\ queued' = queued \ {j}
    /\ phase' = [phase EXCEPT ![j] = "cancelled"]
    /\ CountStarted(j)
    /\ UNCHANGED <<managed, pending, running, parentOf, priorityOf, aborted, pc, stop>>

(* An aborted job is forgotten; neither of its callbacks is called. *)
DropAbortedJob(j) ==
    /\ Startable(j)
    /\ j \in aborted
    /\ queued' = queued \ {j}
    /\ managed' = managed \ {j}
    /\ phase' = [phase EXCEPT ![j] = "cancelled"]
    /\ CountStarted(j)
    /\ UNCHANGED <<pending, running, parentOf, priorityOf, aborted, pc, stop>>

(* Any other exception is logged: the job stays in managed only. *)
StartJobFails(j) ==
    /\ Startable(j)
    /\ j \notin aborted /\ j \in StartFailures
    /\ queued' = queued \ {j}
    /\ phase' = [phase EXCEPT ![j] = "failed"]
    /\ CountStarted(j)
    /\ UNCHANGED <<managed, pending, running, parentOf, priorityOf, aborted, pc, stop>>

(***************************************************************************)
(* managePendingJobs visits the pending jobs in an order the hash map      *)
(* decides, and a job it releases no longer blocks the jobs visited after  *)
(* it. R is a set of jobs one of these orders releases: a released job has *)
(* its parent out of running and out of what stays pending; a job that     *)
(* stays has its parent running, pending or released after it was visited. *)
(***************************************************************************)
ReleasedBySomeOrder(R) ==
    /\ \A j \in R : ~BlockedByParent(j, pending \ R) /\ ~UploadSessionsFull(j)
    /\ \A j \in pending \ R : BlockedByParent(j, pending) \/ UploadSessionsFull(j)

(* Mutant: the released jobs are not queued again. *)
ManagePendingJobsLosesThem(R) ==
    /\ pc = "manage"
    /\ ReleasedBySomeOrder(R)
    /\ pending' = pending \ R
    /\ managed' = managed \ (R \cap aborted)
    /\ phase' = [j \in Jobs |-> IF j \in R \cap aborted THEN "cancelled" ELSE phase[j]]
    /\ pc' = "count"
    /\ UNCHANGED <<queued, running, parentOf, priorityOf, aborted, uploadCount, stop>>

ManagePendingJobs(R) ==
    /\ pc = "manage"
    /\ ReleasedBySomeOrder(R)
    /\ pending' = pending \ R
    /\ queued' = queued \cup (R \ aborted)
    /\ managed' = managed \ (R \cap aborted)
    /\ phase' = [j \in Jobs |-> IF j \in R \cap aborted THEN "cancelled" ELSE phase[j]]
    /\ pc' = "count"
    /\ UNCHANGED <<running, parentOf, priorityOf, aborted, uploadCount, stop>>

-----------------------------------------------------------------------------
Caller ==
    \/ \E j \in Jobs, p \in Jobs \cup {NoParent}, prio \in Priorities :
            QueueAsyncJob(j, p, prio)
    \/ \E j \in Jobs : Abort(j)

Shutdown == Stop \/ Clear

PoolThread(j) == AdditionalCallback(j) \/ DefaultCallback(j) \/ ReleaseThread(j)

Manager ==
    \/ CountUploadSession
    \/ ExitThread
    \/ LeaveFill
    \/ \E j \in Jobs : \/ PopToPending(j)
                       \/ StartJob(j)
                       \/ DropAbortedJob(j)
                       \/ StartJobFails(j)
    \/ \E R \in SUBSET pending : ManagePendingJobs(R)

Next ==
    \/ Caller
    \/ Shutdown
    \/ Manager
    \/ \E j \in Jobs : PoolThread(j)

Spec == Init /\ [][Next]_vars

(***************************************************************************)
(* The manager's thread and the pool's threads are scheduled by the        *)
(* system, and a job returns: its requests have timeouts. Nothing is       *)
(* assumed of the callers.                                                 *)
(***************************************************************************)
FairSpec ==
    /\ Spec
    /\ WF_vars(Manager)
    /\ \A j \in Jobs : WF_vars(PoolThread(j))

-----------------------------------------------------------------------------
(***************************************************************************)
(* What the manager promises is JobService, where a job is submitted,      *)
(* running or over. A job is running until its main callback has been      *)
(* called, and a job that is dropped or cannot start is over.              *)
(***************************************************************************)
ServiceStatus ==
    [j \in Jobs |->
        CASE phase[j] = "created" -> "idle"
          [] phase[j] = "waiting" -> "submitted"
          [] phase[j] \in {"executing", "notified"} -> "running"
          [] OTHER -> "over"]

Service == INSTANCE JobService WITH status <- ServiceStatus, parent <- parentOf,
                                    Sessions <- UploadSessions,
                                    MaxSessions <- MaxUploadSessions

(* Every behaviour of the manager is one of the abstract service. *)
ImplementsService == Service!Spec

(***************************************************************************)
(* The manager's collections always agree with what really happens to the  *)
(* jobs: the queued and the pending jobs are the waiting ones, each in one *)
(* collection only; the running ones are those of the threads that have    *)
(* not made their main callback (countUploadSession would otherwise insert *)
(* a null job in _managedJobs); and what is managed is exactly that, plus  *)
(* the jobs that could not be started. Before JobManager::clear.           *)
(***************************************************************************)
Waiting == {j \in Jobs : phase[j] = "waiting"}
Executing == {j \in Jobs : phase[j] \in {"executing", "notified"}}
Failed == {j \in Jobs : phase[j] = "failed"}

BookkeepingConsistent ==
    pc # "cleared" =>
        /\ queued \cap pending = {}
        /\ queued \cup pending = Waiting
        /\ running = Executing
        /\ managed = Waiting \cup Executing \cup Failed

(***************************************************************************)
(* Upload sessions wait for the chunk jobs they queue: at most one thread  *)
(* in UploadSessionShare runs one, whatever count the manager works from.  *)
(***************************************************************************)
UploadSessionLimit ==
    Cardinality(running \cap UploadSessions) <= MaxUploadSessions

(***************************************************************************)
(* A job whose start was attempted has a parent that is over: it does not  *)
(* wait, does not execute and has called back its owner                    *)
(* (AbstractJob::_parentJobId: "the job that must be completed before      *)
(* starting this one").                                                    *)
(***************************************************************************)
Attempted == {"executing", "notified", "leaving", "ended", "failed"}

ParentCompletesFirst ==
    \A j \in Jobs :
        parentOf[j] # NoParent /\ phase[j] \in Attempted
            => phase[parentOf[j]] \notin {"created", "waiting", "executing", "notified"}

(***************************************************************************)
(* A queued job is answered: its owner is called back, unless the owner    *)
(* aborted it, it could not be started or the manager was stopped.         *)
(***************************************************************************)
EveryJobIsAnswered ==
    \A j \in Jobs :
        phase[j] = "waiting"
            ~> phase[j] = "notified" \/ j \in aborted \/ phase[j] = "failed" \/ stop

(***************************************************************************)
(* The manager forgets every job it was given, so that isJobFinished, on   *)
(* which RemoteFileSystemObserverWorker waits, becomes true: an aborted    *)
(* job too. One whose thread could not be created is never forgotten.      *)
(***************************************************************************)
EveryJobIsForgotten ==
    \A j \in Jobs : j \in managed ~> j \notin managed \/ phase[j] = "failed" \/ stop
=============================================================================
