-------------------------- MODULE JobManagerProofs --------------------------
(***************************************************************************)
(* Proofs about JobManager, for every number of jobs, capacity, share of   *)
(* upload sessions, set of priorities and set of start failures.           *)
(***************************************************************************)
EXTENDS JobManager, FiniteSetTheorems, TLAPS

USE JobManagerAssumption

(***************************************************************************)
(* The inductive invariant. Beside the invariants to be proved it says     *)
(* that a parent was queued before its child, with the same priority and a *)
(* lower id (so the priority queue delivers it first), and that the local  *)
(* count of upload sessions, computed before other threads went on, is     *)
(* never lower than the number of sessions that run.                       *)
(***************************************************************************)
ParentsQueuedEarlier ==
    \A j \in Jobs :
        parentOf[j] # NoParent =>
            /\ phase[j] # "created"
            /\ parentOf[j] \in Jobs
            /\ parentOf[j] < j
            /\ phase[parentOf[j]] # "created"
            /\ priorityOf[parentOf[j]] = priorityOf[j]

CountIsUpperBound ==
    pc = "fill" => Cardinality(running \cap UploadSessions) <= uploadCount

\* The jobs are finitely many: cardinalities below are numbers.
LEMMA JobsFinite == /\ IsFiniteSet(Jobs)
                    /\ Jobs \subseteq Nat
                    /\ NoParent \notin Jobs
  <1>1. 0 \in Int /\ MaxJobs - 1 \in Int
    OBVIOUS
  <1>2. IsFiniteSet(0 .. MaxJobs - 1)
    BY <1>1, FS_Interval
  <1>3. QED
    BY <1>2 DEF Jobs, NoParent

(***************************************************************************)
(* Sets of running upload sessions are finite, so that Cardinality counts  *)
(* them: used by every step that changes running or uploadCount.           *)
(***************************************************************************)
LEMMA SessionSet ==
  ASSUME NEW S, S \subseteq Jobs
  PROVE  /\ IsFiniteSet(S \cap UploadSessions)
         /\ Cardinality(S \cap UploadSessions) \in Nat
  <1>1. S \cap UploadSessions \in SUBSET Jobs
    OBVIOUS
  <1>2. IsFiniteSet(S \cap UploadSessions)
    BY <1>1, JobsFinite, FS_Subset
  <1>3. QED
    BY <1>2, FS_CardinalityType

\* Fewer jobs have no more upload sessions among them.
LEMMA FewerSessions ==
  ASSUME NEW S, NEW T, S \subseteq T, T \subseteq Jobs
  PROVE  Cardinality(S \cap UploadSessions) <= Cardinality(T \cap UploadSessions)
  <1>1. S \cap UploadSessions \in SUBSET (T \cap UploadSessions)
    OBVIOUS
  <1>2. QED
    BY <1>1, SessionSet, FS_Subset

\* One more job is one more upload session, or none.
LEMMA OneMoreSession ==
  ASSUME NEW S, S \subseteq Jobs, NEW j \in Jobs, j \notin S
  PROVE  Cardinality((S \cup {j}) \cap UploadSessions) =
             IF j \in UploadSessions
             THEN Cardinality(S \cap UploadSessions) + 1
             ELSE Cardinality(S \cap UploadSessions)
  <1>1. CASE j \in UploadSessions
    <2>1. (S \cup {j}) \cap UploadSessions = (S \cap UploadSessions) \cup {j}
      BY <1>1
    <2>2. j \notin S \cap UploadSessions
      OBVIOUS
    <2>3. QED
      BY <1>1, <2>1, <2>2, SessionSet, FS_AddElement
  <1>2. CASE j \notin UploadSessions
    <2>1. (S \cup {j}) \cap UploadSessions = S \cap UploadSessions
      BY <1>2
    <2>2. QED
      BY <1>2, <2>1
  <1>3. QED
    BY <1>1, <1>2

\* The limit of upload sessions is a number.
LEMMA MaxUploadSessionsNat == MaxUploadSessions \in Nat
  BY DEF MaxUploadSessions

-----------------------------------------------------------------------------
(* Type correctness. *)

LEMMA TypeInit == Init => TypeOK
  <1> SUFFICES ASSUME Init PROVE TypeOK
    OBVIOUS
  <1>1. parentOf \in [Jobs -> Jobs \cup {NoParent}] /\ priorityOf \in [Jobs -> Nat]
    BY DEF Init
  <1>2. phase \in [Jobs -> Phases]
    BY DEF Init, Phases
  <1>3. QED
    BY <1>1, <1>2 DEF Init, TypeOK

\* Every step keeps the types.
LEMMA TypeNext == TypeOK /\ [Next]_vars => TypeOK'
  <1> SUFFICES ASSUME TypeOK, [Next]_vars PROVE TypeOK'
    OBVIOUS
  <1> USE DEF TypeOK, Phases, jobVars, listVars, managerVars
  <1>1. ASSUME NEW j \in Jobs, NEW p \in Jobs \cup {NoParent}, NEW prio \in Priorities,
               QueueAsyncJob(j, p, prio)
        PROVE  TypeOK'
    BY <1>1 DEF QueueAsyncJob
  <1>2. ASSUME NEW j \in Jobs, Abort(j) PROVE TypeOK'
    BY <1>2 DEF Abort
  <1>3. CASE Stop
    BY <1>3 DEF Stop
  <1>4. CASE Clear
    BY <1>4 DEF Clear
  <1>5. ASSUME NEW j \in Jobs, PoolThread(j) PROVE TypeOK'
    BY <1>5 DEF PoolThread, AdditionalCallback, DefaultCallback, ReleaseThread
  <1>6. CASE CountUploadSession
    BY <1>6, SessionSet DEF CountUploadSession
  <1>7. CASE ExitThread
    BY <1>7 DEF ExitThread
  <1>8. CASE LeaveFill
    BY <1>8 DEF LeaveFill
  <1>9. ASSUME NEW j \in Jobs, PopToPending(j) PROVE TypeOK'
    BY <1>9 DEF PopToPending
  <1>10. ASSUME NEW j \in Jobs, StartJob(j) PROVE TypeOK'
    BY <1>10 DEF StartJob, Startable, CountStarted
  <1>11. ASSUME NEW j \in Jobs, DropAbortedJob(j) PROVE TypeOK'
    BY <1>11 DEF DropAbortedJob, Startable, CountStarted
  <1>12. ASSUME NEW j \in Jobs, StartJobFails(j) PROVE TypeOK'
    BY <1>12 DEF StartJobFails, Startable, CountStarted
  <1>13. ASSUME NEW R \in SUBSET pending, ManagePendingJobs(R) PROVE TypeOK'
    BY <1>13 DEF ManagePendingJobs
  <1>14. CASE UNCHANGED vars
    BY <1>14 DEF vars
  <1>15. QED
    BY <1>1, <1>2, <1>3, <1>4, <1>5, <1>6, <1>7, <1>8, <1>9, <1>10, <1>11, <1>12,
       <1>13, <1>14
    DEF Next, Caller, Shutdown, Manager

(***************************************************************************)
(* Every variable of the manager keeps its type.                           *)
(***************************************************************************)
THEOREM TypeCorrect == Spec => []TypeOK
  BY TypeInit, TypeNext, PTL DEF Spec

-----------------------------------------------------------------------------
(* The collections agree with the phases of the jobs. *)

LEMMA BookkeepingNext ==
  TypeOK /\ BookkeepingConsistent /\ [Next]_vars => BookkeepingConsistent'
  <1> SUFFICES ASSUME TypeOK, BookkeepingConsistent, [Next]_vars
               PROVE  BookkeepingConsistent'
    OBVIOUS
  <1> USE DEF TypeOK, BookkeepingConsistent, Waiting, Executing, Failed,
              jobVars, listVars, managerVars
  <1>1. ASSUME NEW j \in Jobs, NEW p \in Jobs \cup {NoParent}, NEW prio \in Priorities,
               QueueAsyncJob(j, p, prio)
        PROVE  BookkeepingConsistent'
    BY <1>1 DEF QueueAsyncJob
  <1>2. ASSUME NEW j \in Jobs, Abort(j) PROVE BookkeepingConsistent'
    BY <1>2 DEF Abort
  <1>3. CASE Stop
    BY <1>3 DEF Stop
  <1>4. CASE Clear
    BY <1>4 DEF Clear
  <1>5. ASSUME NEW j \in Jobs, PoolThread(j) PROVE BookkeepingConsistent'
    <2>1. CASE AdditionalCallback(j)
      BY <2>1 DEF AdditionalCallback
    <2>2. CASE DefaultCallback(j)
      BY <2>2 DEF DefaultCallback
    <2>3. CASE ReleaseThread(j)
      BY <2>3 DEF ReleaseThread
    <2>4. QED
      BY <1>5, <2>1, <2>2, <2>3 DEF PoolThread
  <1>6. CASE CountUploadSession
    BY <1>6 DEF CountUploadSession
  <1>7. CASE ExitThread
    BY <1>7 DEF ExitThread
  <1>8. CASE LeaveFill
    BY <1>8 DEF LeaveFill
  <1>9. ASSUME NEW j \in Jobs, PopToPending(j) PROVE BookkeepingConsistent'
    BY <1>9 DEF PopToPending, IsTop
  <1>10. ASSUME NEW j \in Jobs, StartJob(j) PROVE BookkeepingConsistent'
    BY <1>10 DEF StartJob, Startable, IsTop
  <1>11. ASSUME NEW j \in Jobs, DropAbortedJob(j) PROVE BookkeepingConsistent'
    BY <1>11 DEF DropAbortedJob, Startable, IsTop
  <1>12. ASSUME NEW j \in Jobs, StartJobFails(j) PROVE BookkeepingConsistent'
    BY <1>12 DEF StartJobFails, Startable, IsTop
  <1>13. ASSUME NEW R \in SUBSET pending, ManagePendingJobs(R)
         PROVE  BookkeepingConsistent'
    BY <1>13 DEF ManagePendingJobs
  <1>14. CASE UNCHANGED vars
    BY <1>14 DEF vars
  <1>15. QED
    BY <1>1, <1>2, <1>3, <1>4, <1>5, <1>6, <1>7, <1>8, <1>9, <1>10, <1>11, <1>12,
       <1>13, <1>14
    DEF Next, Caller, Shutdown, Manager

\* The collections agree with the lives of the jobs at the start.
LEMMA BookkeepingInit == Init => BookkeepingConsistent
  BY DEF Init, BookkeepingConsistent, Waiting, Executing, Failed

(***************************************************************************)
(* At every moment the queued, pending and running collections hold        *)
(* exactly the jobs that wait or execute, and managed holds these and the  *)
(* jobs that could not start.                                              *)
(***************************************************************************)
THEOREM CollectionsAgree == Spec => []BookkeepingConsistent
  <1>1. Init => TypeOK /\ BookkeepingConsistent
    BY TypeInit, BookkeepingInit
  <1>2. TypeOK /\ BookkeepingConsistent /\ [Next]_vars
            => (TypeOK /\ BookkeepingConsistent)'
    BY TypeNext, BookkeepingNext
  <1>3. QED
    BY <1>1, <1>2, PTL DEF Spec

-----------------------------------------------------------------------------
(* The limit on the upload sessions. *)

LimitInv == UploadSessionLimit /\ CountIsUpperBound

\* No session runs at the start.
LEMMA LimitInit == Init => LimitInv
  <1> SUFFICES ASSUME Init PROVE LimitInv
    OBVIOUS
  <1>1. running \cap UploadSessions = {}
    BY DEF Init
  <1>2. Cardinality(running \cap UploadSessions) = 0
    BY <1>1, FS_EmptySet
  <1>3. QED
    BY <1>2, MaxUploadSessionsNat
    DEF Init, LimitInv, UploadSessionLimit, CountIsUpperBound

\* Every step keeps the limit and the count that bounds it.
LEMMA LimitNext ==
  TypeOK /\ BookkeepingConsistent /\ LimitInv /\ [Next]_vars => LimitInv'
  <1> SUFFICES ASSUME TypeOK, BookkeepingConsistent, LimitInv, [Next]_vars
               PROVE  LimitInv'
    OBVIOUS
  <1> DEFINE n == Cardinality(running \cap UploadSessions)
  <1> USE DEF LimitInv, UploadSessionLimit, CountIsUpperBound
  <1>0. /\ n \in Nat /\ MaxUploadSessions \in Nat /\ uploadCount \in Nat
        /\ running \subseteq Jobs
    BY SessionSet, MaxUploadSessionsNat DEF TypeOK
  <1>1. ASSUME running' = running, uploadCount' = uploadCount, pc' = pc
        PROVE  LimitInv'
    BY <1>1
  <1>2. ASSUME running' \subseteq running, uploadCount' = uploadCount, pc' = pc
        PROVE  LimitInv'
    <2>1. running' \subseteq Jobs /\ Cardinality(running' \cap UploadSessions) \in Nat
      BY <1>0, <1>2, SessionSet
    <2>2. Cardinality(running' \cap UploadSessions) <= n
      BY <1>0, <1>2, FewerSessions
    <2>3. QED
      BY <1>0, <1>2, <2>1, <2>2
  <1>3. ASSUME running' \subseteq running, pc' # "fill" PROVE LimitInv'
    <2>1. running' \subseteq Jobs /\ Cardinality(running' \cap UploadSessions) \in Nat
      BY <1>0, <1>3, SessionSet
    <2>2. Cardinality(running' \cap UploadSessions) <= n
      BY <1>0, <1>3, FewerSessions
    <2>3. QED
      BY <1>0, <1>3, <2>1, <2>2
  <1>4. ASSUME NEW j \in Jobs, CountStarted(j), running' = running, pc' = pc
        PROVE  LimitInv'
    BY <1>0, <1>4 DEF CountStarted
  <1>5. ASSUME NEW j \in Jobs, StartJob(j) PROVE LimitInv'
    <2>1. j \notin running
      BY <1>5 DEF StartJob, Startable, IsTop, BookkeepingConsistent, Waiting, Executing
    <2>2. Cardinality(running' \cap UploadSessions)
            = IF j \in UploadSessions THEN n + 1 ELSE n
      BY <1>0, <1>5, <2>1, OneMoreSession DEF StartJob
    <2>3. pc = "fill" /\ (j \in UploadSessions => uploadCount < MaxUploadSessions)
      BY <1>0, <1>5 DEF StartJob, Startable, UploadSessionsFull
    <2>4. QED
      BY <1>0, <1>5, <2>2, <2>3 DEF StartJob, CountStarted
  <1>6. CASE CountUploadSession
    BY <1>0, <1>6 DEF CountUploadSession, listVars
  <1>7. CASE Caller \/ Stop
    BY <1>1, <1>7 DEF Caller, QueueAsyncJob, Abort, Stop, managerVars, listVars
  <1>8. CASE Clear
    BY <1>3, <1>8 DEF Clear
  <1>9. ASSUME NEW j \in Jobs, PoolThread(j) PROVE LimitInv'
    BY <1>2, <1>9
    DEF PoolThread, AdditionalCallback, DefaultCallback, ReleaseThread, managerVars,
        listVars
  <1>10. CASE ExitThread \/ LeaveFill
    BY <1>3, <1>10 DEF ExitThread, LeaveFill, listVars
  <1>11. ASSUME NEW j \in Jobs, PopToPending(j) PROVE LimitInv'
    BY <1>1, <1>11 DEF PopToPending, managerVars
  <1>12. ASSUME NEW j \in Jobs, DropAbortedJob(j) \/ StartJobFails(j) PROVE LimitInv'
    BY <1>4, <1>12 DEF DropAbortedJob, StartJobFails
  <1>13. ASSUME NEW R \in SUBSET pending, ManagePendingJobs(R) PROVE LimitInv'
    BY <1>3, <1>13 DEF ManagePendingJobs
  <1>14. CASE UNCHANGED vars
    BY <1>1, <1>14 DEF vars, managerVars, listVars
  <1>15. QED
    BY <1>5, <1>6, <1>7, <1>8, <1>9, <1>10, <1>11, <1>12, <1>13, <1>14
    DEF Next, Shutdown, Manager

(***************************************************************************)
(* The manager never lets more upload sessions run than their share of the *)
(* pool, although it decides with a count taken in an earlier critical     *)
(* section: the count can only be too high.                                *)
(***************************************************************************)
THEOREM UploadSessionsBounded == Spec => []UploadSessionLimit
  <1>1. Init => TypeOK /\ BookkeepingConsistent /\ LimitInv
    BY TypeInit, BookkeepingInit, LimitInit
  <1>2. TypeOK /\ BookkeepingConsistent /\ LimitInv /\ [Next]_vars
            => (TypeOK /\ BookkeepingConsistent /\ LimitInv)'
    BY TypeNext, BookkeepingNext, LimitNext
  <1>3. LimitInv => UploadSessionLimit
    BY DEF LimitInv
  <1>4. QED
    BY <1>1, <1>2, <1>3, PTL DEF Spec

-----------------------------------------------------------------------------
(* Parents and children. *)

LEMMA ParentsNext ==
  TypeOK /\ BookkeepingConsistent /\ ParentsQueuedEarlier /\ [Next]_vars
      => ParentsQueuedEarlier'
  <1> SUFFICES ASSUME TypeOK, BookkeepingConsistent, ParentsQueuedEarlier, [Next]_vars
               PROVE  ParentsQueuedEarlier'
    OBVIOUS
  <1> USE DEF TypeOK
  <1>1. ASSUME parentOf' = parentOf, priorityOf' = priorityOf,
               \A j \in Jobs : phase[j] # "created" => phase'[j] # "created"
        PROVE  ParentsQueuedEarlier'
    BY <1>1 DEF ParentsQueuedEarlier
  <1>2. ASSUME NEW j \in Jobs, NEW p \in Jobs \cup {NoParent}, NEW prio \in Priorities,
               QueueAsyncJob(j, p, prio)
        PROVE  ParentsQueuedEarlier'
    <2> SUFFICES ASSUME NEW k \in Jobs, parentOf'[k] # NoParent
                 PROVE  /\ phase'[k] # "created"
                        /\ parentOf'[k] \in Jobs
                        /\ parentOf'[k] < k
                        /\ phase'[parentOf'[k]] # "created"
                        /\ priorityOf'[parentOf'[k]] = priorityOf'[k]
      BY DEF ParentsQueuedEarlier
    <2>1. \A i \in Jobs : phase[i] # "created" => i # j /\ phase'[i] # "created"
      BY <1>2 DEF QueueAsyncJob
    <2>2. CASE k = j
      BY <1>2, <2>1, <2>2, JobsFinite DEF QueueAsyncJob, LegalParent
    <2>3. CASE k # j
      BY <1>2, <2>1, <2>3, JobsFinite DEF QueueAsyncJob, ParentsQueuedEarlier
    <2>4. QED
      BY <2>2, <2>3
  <1>3. ASSUME NEW j \in Jobs, Abort(j) PROVE ParentsQueuedEarlier'
    BY <1>1, <1>3 DEF Abort
  <1>4. CASE Shutdown
    BY <1>1, <1>4 DEF Shutdown, Stop, Clear, jobVars
  <1>5. ASSUME NEW j \in Jobs, PoolThread(j) PROVE ParentsQueuedEarlier'
    BY <1>1, <1>5 DEF PoolThread, AdditionalCallback, DefaultCallback, ReleaseThread
  <1>6. CASE CountUploadSession \/ ExitThread \/ LeaveFill
    BY <1>1, <1>6 DEF CountUploadSession, ExitThread, LeaveFill, jobVars
  <1>7. ASSUME NEW j \in Jobs,
               PopToPending(j) \/ StartJob(j) \/ DropAbortedJob(j) \/ StartJobFails(j)
        PROVE  ParentsQueuedEarlier'
    BY <1>1, <1>7 DEF PopToPending, StartJob, DropAbortedJob, StartJobFails, jobVars
  <1>8. ASSUME NEW R \in SUBSET pending, ManagePendingJobs(R)
        PROVE  ParentsQueuedEarlier'
    BY <1>1, <1>8 DEF ManagePendingJobs
  <1>9. CASE UNCHANGED vars
    BY <1>1, <1>9 DEF vars, jobVars
  <1>10. QED
    BY <1>2, <1>3, <1>4, <1>5, <1>6, <1>7, <1>8, <1>9 DEF Next, Caller, Manager

(***************************************************************************)
(* The heart of the matter: when the manager takes a job from the queue,   *)
(* its parent is over. It is not running or pending, which the code looks  *)
(* at, and it is not queued, which the code does not look at: it would     *)
(* have been taken first.                                                  *)
(***************************************************************************)
LEMMA StartableParentIsOver ==
  ASSUME TypeOK, BookkeepingConsistent, ParentsQueuedEarlier,
         NEW j \in Jobs, Startable(j), parentOf[j] # NoParent
  PROVE  /\ parentOf[j] \in Jobs
         /\ phase[parentOf[j]] \notin {"created", "waiting", "executing", "notified"}
  <1> DEFINE p == parentOf[j]
  <1>1. /\ p \in Jobs /\ p < j /\ j \in Nat /\ p \in Nat
        /\ phase[p] # "created" /\ priorityOf[p] = priorityOf[j]
    BY JobsFinite DEF ParentsQueuedEarlier
  <1>2. p \notin running \cup pending
    BY DEF Startable, IsTop, IsParentPendingOrRunning, BlockedByParent,
           BookkeepingConsistent
  <1>3. ~Before(j, p)
    BY <1>1 DEF Before, TypeOK
  <1>4. p \notin queued
    BY <1>1, <1>3 DEF Startable, IsTop
  <1>5. p \notin Waiting \cup Executing
    BY <1>2, <1>4 DEF BookkeepingConsistent, Startable
  <1>6. QED
    BY <1>1, <1>5 DEF Waiting, Executing

Over(j) == phase[j] \notin {"created", "waiting", "executing", "notified"}

\* Every step keeps the order of parents and children.
LEMMA CompletesFirstNext ==
  TypeOK /\ BookkeepingConsistent /\ ParentsQueuedEarlier /\ ParentCompletesFirst
      /\ [Next]_vars
  => ParentCompletesFirst'
  <1> SUFFICES ASSUME TypeOK, BookkeepingConsistent, ParentsQueuedEarlier,
                      ParentCompletesFirst, [Next]_vars
               PROVE  ParentCompletesFirst'
    OBVIOUS
  <1> SUFFICES ASSUME NEW k \in Jobs, parentOf'[k] # NoParent, phase'[k] \in Attempted
               PROVE  Over(parentOf[k])'
    BY DEF ParentCompletesFirst, Over, Attempted
  <1> USE DEF TypeOK
  <1>1. ASSUME parentOf' = parentOf, phase'[k] \in Attempted => phase[k] \in Attempted,
               \A i \in Jobs : Over(i) => Over(i)'
        PROVE  Over(parentOf[k])'
    BY <1>1 DEF ParentCompletesFirst, ParentsQueuedEarlier, Over
  <1>2. ASSUME NEW j \in Jobs, NEW p \in Jobs \cup {NoParent}, NEW prio \in Priorities,
               QueueAsyncJob(j, p, prio)
        PROVE  Over(parentOf[k])'
    <2>1. k # j
      BY <1>2 DEF QueueAsyncJob, Attempted
    <2>2. phase'[k] = phase[k] /\ parentOf'[k] = parentOf[k]
      BY <1>2, <2>1 DEF QueueAsyncJob
    <2>3. parentOf[k] \in Jobs /\ Over(parentOf[k])
      BY <2>2 DEF ParentCompletesFirst, ParentsQueuedEarlier, Over
    <2>4. parentOf[k] # j
      BY <1>2, <2>3 DEF QueueAsyncJob, Over
    <2>5. QED
      BY <1>2, <2>2, <2>3, <2>4 DEF QueueAsyncJob, Over
  <1>3. ASSUME NEW j \in Jobs, Abort(j) PROVE Over(parentOf[k])'
    BY <1>1, <1>3 DEF Abort, Over
  <1>4. CASE Shutdown \/ CountUploadSession \/ ExitThread \/ LeaveFill
    BY <1>1, <1>4
    DEF Shutdown, Stop, Clear, CountUploadSession, ExitThread, LeaveFill, jobVars, Over
  <1>5. ASSUME NEW j \in Jobs, PoolThread(j) PROVE Over(parentOf[k])'
    BY <1>1, <1>5
    DEF PoolThread, AdditionalCallback, DefaultCallback, ReleaseThread, Over, Attempted
  <1>6. ASSUME NEW j \in Jobs, PopToPending(j) \/ DropAbortedJob(j)
        PROVE  Over(parentOf[k])'
    BY <1>1, <1>6 DEF PopToPending, DropAbortedJob, jobVars, Over, Attempted
  <1>7. ASSUME NEW j \in Jobs, StartJob(j) \/ StartJobFails(j)
        PROVE  Over(parentOf[k])'
    <2>1. Startable(j) /\ parentOf' = parentOf /\ phase[j] = "waiting"
      BY <1>7 DEF StartJob, StartJobFails, Startable, IsTop, BookkeepingConsistent,
                  Waiting
    <2>2. \A i \in Jobs : i # j => phase'[i] = phase[i]
      BY <1>7 DEF StartJob, StartJobFails
    <2>3. \A i \in Jobs : Over(i) => Over(i)'
      BY <2>1, <2>2 DEF Over
    <2>4. CASE k = j
      BY <2>1, <2>3, <2>4, StartableParentIsOver DEF Over
    <2>5. CASE k # j
      BY <1>1, <2>1, <2>2, <2>3, <2>5
    <2>6. QED
      BY <2>4, <2>5
  <1>8. ASSUME NEW R \in SUBSET pending, ManagePendingJobs(R)
        PROVE  Over(parentOf[k])'
    BY <1>1, <1>8 DEF ManagePendingJobs, Over, Attempted
  <1>9. CASE UNCHANGED vars
    BY <1>1, <1>9 DEF vars, jobVars, Over
  <1>10. QED
    BY <1>2, <1>3, <1>4, <1>5, <1>6, <1>7, <1>8, <1>9 DEF Next, Caller, Manager, Over

IInv ==
    /\ TypeOK
    /\ BookkeepingConsistent
    /\ LimitInv
    /\ ParentsQueuedEarlier
    /\ ParentCompletesFirst

\* The whole invariant holds at the start.
LEMMA IInvInit == Init => IInv
  <1> SUFFICES ASSUME Init PROVE IInv
    OBVIOUS
  <1>1. ParentsQueuedEarlier /\ ParentCompletesFirst
    BY DEF Init, ParentsQueuedEarlier, ParentCompletesFirst
  <1>2. QED
    BY <1>1, TypeInit, BookkeepingInit, LimitInit DEF IInv

\* Every step keeps the whole invariant.
LEMMA IInvNext == IInv /\ [Next]_vars => IInv'
  BY TypeNext, BookkeepingNext, LimitNext, ParentsNext, CompletesFirstNext DEF IInv

(***************************************************************************)
(* No job starts before its parent is over, although the manager never     *)
(* looks for the parent in the queue.                                      *)
(***************************************************************************)
THEOREM ChildrenWait == Spec => []ParentCompletesFirst
  <1>1. IInv => ParentCompletesFirst
    BY DEF IInv
  <1>2. QED
    BY <1>1, IInvInit, IInvNext, PTL DEF Spec

-----------------------------------------------------------------------------
(* The manager implements the abstract service. *)

LEMMA StatusOfPhase ==
  ASSUME NEW j \in Jobs
  PROVE  /\ phase[j] = "created" => ServiceStatus[j] = "idle"
         /\ phase[j] = "waiting" => ServiceStatus[j] = "submitted"
         /\ phase[j] \in {"executing", "notified"} => ServiceStatus[j] = "running"
         /\ phase[j] \notin {"created", "waiting", "executing", "notified"}
                => ServiceStatus[j] = "over"
  BY DEF ServiceStatus

\* The mapped status is a function on the jobs, as the service has it.
LEMMA StatusIsFunction == ServiceStatus = [j \in Jobs |-> ServiceStatus[j]]
  BY DEF ServiceStatus

(* A step that leaves every job in phases of the same status is a stutter. *)
LEMMA SameStatus ==
  ASSUME TypeOK, parentOf' = parentOf,
         \A j \in Jobs : ServiceStatus'[j] = ServiceStatus[j]
  PROVE  UNCHANGED Service!vars
  <1>1. ServiceStatus' = ServiceStatus
    BY StatusIsFunction DEF ServiceStatus
  <1>2. QED
    BY <1>1 DEF Service!vars

(* A step that changes the status of the jobs in D only. *)
LEMMA NewStatus ==
  ASSUME NEW D \in SUBSET Jobs, NEW s,
         \A j \in Jobs : ServiceStatus'[j] = IF j \in D THEN s ELSE ServiceStatus[j]
  PROVE  ServiceStatus' = [j \in Jobs |-> IF j \in D THEN s ELSE ServiceStatus[j]]
  BY DEF ServiceStatus

\* A step that changes the phase of one job changes its status only.
LEMMA NewStatusOfOne ==
  ASSUME NEW i \in Jobs, NEW s,
         \A j \in Jobs : ServiceStatus'[j] = IF j = i THEN s ELSE ServiceStatus[j]
  PROVE  ServiceStatus' = [ServiceStatus EXCEPT ![i] = s]
  BY DEF ServiceStatus

\* The sessions that run here are those that run in the service.
LEMMA RunningSessionsAgree ==
  ASSUME TypeOK, BookkeepingConsistent, pc # "cleared"
  PROVE  Service!RunningSessions = running \cap UploadSessions
  <1>1. \A j \in Jobs : ServiceStatus[j] = "running" <=> j \in running
    BY StatusOfPhase DEF BookkeepingConsistent, Executing, TypeOK, Phases
  <1>2. QED
    BY <1>1 DEF Service!RunningSessions, TypeOK

(* JobService counts with the same operator. *)
LEMMA SameCardinality == \A S : Service!Cardinality(S) = Cardinality(S)
  BY DEF Cardinality, Service!Cardinality, IsFiniteSet, Service!IsFiniteSet

\* Every step of the manager is a step of the service or none.
LEMMA StepImplements == IInv /\ [Next]_vars => [Service!Next]_(Service!vars)
  <1> SUFFICES ASSUME IInv, [Next]_vars PROVE [Service!Next]_(Service!vars)
    OBVIOUS
  <1>0. TypeOK /\ BookkeepingConsistent /\ LimitInv /\ ParentsQueuedEarlier /\ TypeOK'
    BY TypeNext DEF IInv
  <1> DEFINE st(j) == ServiceStatus[j]
  <1>s. \A j \in Jobs :
            /\ phase'[j] = "created" => ServiceStatus'[j] = "idle"
            /\ phase'[j] = "waiting" => ServiceStatus'[j] = "submitted"
            /\ phase'[j] \in {"executing", "notified"} => ServiceStatus'[j] = "running"
            /\ phase'[j] \notin {"created", "waiting", "executing", "notified"}
                   => ServiceStatus'[j] = "over"
    BY StatusOfPhase DEF ServiceStatus
  <1>p. \A j \in Jobs : phase'[j] = phase[j] => ServiceStatus'[j] = ServiceStatus[j]
    BY <1>s, StatusOfPhase
  <1>1. ASSUME parentOf' = parentOf, phase' = phase
        PROVE  UNCHANGED Service!vars
    BY <1>0, <1>1, <1>p, SameStatus
  <1>2. ASSUME NEW j \in Jobs, NEW p \in Jobs \cup {NoParent}, NEW prio \in Priorities,
               QueueAsyncJob(j, p, prio)
        PROVE  Service!Next
    <2>1. ServiceStatus[j] = "idle"
      BY <1>2, StatusOfPhase DEF QueueAsyncJob
    <2>2. p = NoParent \/ ServiceStatus[p] # "idle"
      BY <1>0, <1>2, StatusOfPhase DEF QueueAsyncJob, LegalParent, TypeOK, Phases
    <2>3. \A i \in Jobs :
              ServiceStatus'[i] = IF i = j THEN "submitted" ELSE ServiceStatus[i]
      BY <1>0, <1>2, <1>s, <1>p DEF QueueAsyncJob, TypeOK
    <2>4. Service!Submit(j, p)
      BY <1>2, <2>1, <2>2, <2>3, NewStatusOfOne DEF Service!Submit, QueueAsyncJob
    <2>5. QED
      BY <2>4 DEF Service!Next
  <1>3. CASE Shutdown \/ CountUploadSession \/ ExitThread \/ LeaveFill
    BY <1>1, <1>3
    DEF Shutdown, Stop, Clear, CountUploadSession, ExitThread, LeaveFill, jobVars
  <1>4. ASSUME NEW j \in Jobs, Abort(j) \/ PopToPending(j)
        PROVE  UNCHANGED Service!vars
    BY <1>1, <1>4 DEF Abort, PopToPending, jobVars
  <1>5. ASSUME NEW j \in Jobs, AdditionalCallback(j) \/ ReleaseThread(j)
        PROVE  UNCHANGED Service!vars
    <2>1. \A i \in Jobs : ServiceStatus'[i] = ServiceStatus[i]
      BY <1>0, <1>5, <1>s, <1>p, StatusOfPhase
      DEF AdditionalCallback, ReleaseThread, TypeOK
    <2>2. QED
      BY <1>0, <1>5, <2>1, SameStatus DEF AdditionalCallback, ReleaseThread
  <1>6. ASSUME NEW j \in Jobs, DefaultCallback(j) PROVE Service!Next
    <2>1. ServiceStatus[j] = "running"
      BY <1>6, StatusOfPhase DEF DefaultCallback
    <2>2. \A i \in Jobs : ServiceStatus'[i] = IF i = j THEN "over" ELSE ServiceStatus[i]
      BY <1>0, <1>6, <1>s, <1>p DEF DefaultCallback, TypeOK
    <2>3. Service!Finish(j)
      BY <1>6, <2>1, <2>2, NewStatusOfOne DEF Service!Finish, DefaultCallback
    <2>4. QED
      BY <2>3 DEF Service!Next
  <1>7. ASSUME NEW j \in Jobs, StartJob(j) PROVE Service!Next
    <2>1. phase[j] = "waiting" /\ pc = "fill" /\ Startable(j)
      BY <1>0, <1>7 DEF StartJob, Startable, IsTop, BookkeepingConsistent, Waiting
    <2>2. \A i \in Jobs :
              ServiceStatus'[i] = IF i = j THEN "running" ELSE ServiceStatus[i]
      BY <1>0, <1>7, <1>s, <1>p DEF StartJob, TypeOK
    <2>3. parentOf[j] # NoParent => ServiceStatus[parentOf[j]] = "over"
      BY <1>0, <2>1, StartableParentIsOver, StatusOfPhase
    <2>4. ASSUME j \in UploadSessions
          PROVE  Cardinality(Service!RunningSessions) < MaxUploadSessions
      <3>1. Cardinality(Service!RunningSessions) <= uploadCount
        BY <1>0, <2>1, RunningSessionsAgree DEF LimitInv, CountIsUpperBound
      <3>2. uploadCount < MaxUploadSessions /\ uploadCount \in Nat
        BY <1>0, <2>1, <2>4, MaxUploadSessionsNat DEF Startable, UploadSessionsFull, TypeOK
      <3>3. Cardinality(Service!RunningSessions) \in Nat
        BY <1>0, <2>1, RunningSessionsAgree, SessionSet DEF TypeOK
      <3>4. QED
        BY <3>1, <3>2, <3>3, MaxUploadSessionsNat
    <2>5. ServiceStatus[j] = "submitted"
      BY <2>1, StatusOfPhase
    <2>6. Service!Start(j)
      BY <1>7, <2>2, <2>3, <2>4, <2>5, NewStatusOfOne, SameCardinality
      DEF Service!Start, StartJob
    <2>7. QED
      BY <2>6 DEF Service!Next
  <1>8. ASSUME NEW D \in SUBSET Jobs, parentOf' = parentOf,
               \A j \in D : phase[j] = "waiting" /\ phase'[j] \in {"cancelled", "failed"},
               \A j \in Jobs \ D : phase'[j] = phase[j]
        PROVE  Service!Next
    <2>1. \A j \in D : ServiceStatus[j] = "submitted"
      BY <1>8, StatusOfPhase
    <2>2. \A i \in Jobs : ServiceStatus'[i] = IF i \in D THEN "over" ELSE ServiceStatus[i]
      BY <1>8, <1>s, <1>p
    <2>3. Service!Discard(D)
      BY <1>8, <2>1, <2>2, NewStatus DEF Service!Discard
    <2>4. QED
      BY <2>3 DEF Service!Next
  <1>9. ASSUME NEW j \in Jobs, DropAbortedJob(j) \/ StartJobFails(j) PROVE Service!Next
    <2>1. phase[j] = "waiting"
      BY <1>0, <1>9 DEF DropAbortedJob, StartJobFails, Startable, IsTop,
                        BookkeepingConsistent, Waiting
    <2>2. /\ phase'[j] \in {"cancelled", "failed"} /\ parentOf' = parentOf
          /\ \A i \in Jobs \ {j} : phase'[i] = phase[i]
      BY <1>0, <1>9 DEF DropAbortedJob, StartJobFails, TypeOK
    <2>3. /\ {j} \in SUBSET Jobs
          /\ \A i \in {j} : phase[i] = "waiting" /\ phase'[i] \in {"cancelled", "failed"}
      BY <2>1, <2>2
    <2>4. QED
      BY <1>8, <2>2, <2>3
  <1>10. ASSUME NEW R \in SUBSET pending, ManagePendingJobs(R) PROVE Service!Next
    <2>1. \A j \in R : phase[j] = "waiting" /\ j \in Jobs
      BY <1>0, <1>10 DEF ManagePendingJobs, BookkeepingConsistent, Waiting
    <2>2. /\ \A j \in R \cap aborted : phase'[j] = "cancelled"
          /\ \A j \in Jobs \ (R \cap aborted) : phase'[j] = phase[j]
          /\ parentOf' = parentOf
      BY <1>0, <1>10, <2>1 DEF ManagePendingJobs
    <2>3. R \cap aborted \in SUBSET Jobs
      BY <2>1
    <2>4. QED
      BY <1>8, <2>1, <2>2, <2>3
  <1>11. CASE UNCHANGED vars
    BY <1>1, <1>11 DEF vars, jobVars
  <1>12. QED
    BY <1>2, <1>3, <1>4, <1>5, <1>6, <1>7, <1>9, <1>10, <1>11
    DEF Next, Caller, Manager, PoolThread

\* The manager starts where the service starts.
LEMMA InitImplements == Init => Service!Init
  BY DEF Init, Service!Init, ServiceStatus

(***************************************************************************)
(* The threads, the queue, the pending jobs and the races between them are *)
(* invisible: every behaviour is one of JobService.                        *)
(***************************************************************************)
THEOREM ManagerImplementsService == Spec => ImplementsService
  BY IInvInit, IInvNext, InitImplements, StepImplements, PTL
  DEF Spec, ImplementsService, Service!Spec
=============================================================================
