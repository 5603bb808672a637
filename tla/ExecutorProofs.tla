--------------------------- MODULE ExecutorProofs ---------------------------
(***************************************************************************)
(* Proofs about Executor, for every number of operations, choice of those  *)
(* that are given to jobs, dependences, set of jobs, limit of jobs and     *)
(* number of pauses.                                                       *)
(***************************************************************************)
EXTENDS Executor, SequenceTheorems, FiniteSetTheorems, TLAPS

USE ExecutorAssumption

(***************************************************************************)
(* The inductive invariant.                                                *)
(***************************************************************************)
\* Between the test of the list and the pop of its first operation nothing
\* empties it but what leaves this part of the loop.
ListToPop == pc \in {"stop", "pause", "pop"} => opList # <<>>

\* A job that is waited for has an operation.
OngoingHasOp == \A j \in ongoing : jobOp[j] # NoOp

TypeInv == TypeOK /\ ListToPop /\ OngoingHasOp

(***************************************************************************)
(* What is used of the helpers.                                            *)
(***************************************************************************)
LEMMA FlagsKept ==
  ASSUME NEW f \in Flags
  PROVE  /\ Start(f) \in Flags /\ Pause(f) \in Flags /\ Unpause(f) \in Flags /\ Stop(f) \in Flags
         /\ SetPauseDone(f) \in Flags /\ SetUnpauseDone(f) \in Flags /\ SetDone(f) \in Flags
  BY DEF Flags, Start, Pause, Unpause, Stop, SetPauseDone, SetUnpauseDone, SetDone

\* The operations of the jobs in progress are finitely many.
LEMMA OngoingOpsFinite ==
  ASSUME TypeInv
  PROVE  /\ OngoingOps \subseteq Ops
         /\ Cardinality(OngoingOps) \in Nat
  <1> DEFINE opOf == [j \in ongoing |-> jobOp[j]]
  <1>1. OngoingOps \subseteq Ops
    BY DEF TypeInv, TypeOK, OngoingHasOp, OngoingOps
  <1>2. IsFiniteSet(ongoing)
    BY FS_Subset DEF TypeInv, TypeOK
  <1>3. opOf \in Surjection(ongoing, OngoingOps)
    BY DEF Surjection, OngoingOps
  <1>4. IsFiniteSet(OngoingOps)
    BY <1>2, <1>3, FS_Surjection
  <1>5. QED
    BY <1>1, <1>4, FS_CardinalityType

\* An order of operations is a sequence of them, each once.
LEMMA OrderIsASeq ==
  ASSUME NEW S \in SUBSET Ops, Cardinality(S) \in Nat, NEW order \in Orders(S)
  PROVE  /\ order \in Seq(Ops) /\ Len(order) = Cardinality(S)
         /\ Range(order) = S
         /\ \A i, k \in DOMAIN order : order[i] = order[k] => i = k
  <1>1. /\ order \in [1..Cardinality(S) -> S]
        /\ \A t \in S : \E i \in 1..Cardinality(S) : order[i] = t
        /\ \A i, k \in 1..Cardinality(S) : order[i] = order[k] => i = k
    BY DEF Orders, Bijection, Injection, Surjection, IsInjective
  <1>2. order \in Seq(S) /\ Len(order) = Cardinality(S)
    BY <1>1
  <1>3. order \in Seq(Ops)
    BY <1>2, SeqMonotonic
  <1>4. DOMAIN order = 1..Cardinality(S)
    BY <1>1
  <1>5. Range(order) = S
    BY <1>1, <1>4 DEF Range
  <1>6. QED
    BY <1>1, <1>2, <1>3, <1>4, <1>5

\* What the list holds once operations were put back in front of it.
LEMMA PutBack ==
  ASSUME NEW s \in Seq(Ops), NEW S \in SUBSET Ops, Cardinality(S) \in Nat, NEW order \in Orders(S)
  PROVE  /\ order \o s \in Seq(Ops)
         /\ s # <<>> => order \o s # <<>>
         /\ Range(order \o s) = S \cup Range(s)
  <1>1. order \in Seq(Ops) /\ Range(order) = S
    BY OrderIsASeq
  <1>2. /\ order \o s \in Seq(Ops)
        /\ Len(order \o s) = Len(order) + Len(s)
        /\ \A i \in 1..Len(order) + Len(s) :
              (order \o s)[i] = IF i <= Len(order) THEN order[i] ELSE s[i - Len(order)]
    BY <1>1, ConcatProperties
  <1>3. s # <<>> => order \o s # <<>>
    BY <1>1, ConcatEqualIffEmpty
  <1>4. /\ DOMAIN order = 1..Len(order) /\ DOMAIN s = 1..Len(s)
        /\ DOMAIN (order \o s) = 1..Len(order) + Len(s)
        /\ Len(order) \in Nat /\ Len(s) \in Nat
    BY <1>1, <1>2, LenProperties
  <1>5. Range(order \o s) \subseteq Range(order) \cup Range(s)
    <2> SUFFICES ASSUME NEW i \in 1..Len(order) + Len(s)
                 PROVE  (order \o s)[i] \in Range(order) \cup Range(s)
      BY <1>4 DEF Range
    <2>1. CASE i <= Len(order)
      BY <1>2, <1>4, <2>1 DEF Range
    <2>2. CASE ~(i <= Len(order))
      <3>1. i - Len(order) \in 1..Len(s)
        BY <1>4, <2>2
      <3>2. (order \o s)[i] = s[i - Len(order)]
        BY <1>2, <2>2
      <3>3. QED
        BY <1>4, <3>1, <3>2 DEF Range
    <2>3. QED
      BY <2>1, <2>2
  <1>6. Range(order) \subseteq Range(order \o s)
    <2> SUFFICES ASSUME NEW i \in 1..Len(order) PROVE order[i] \in Range(order \o s)
      BY <1>4 DEF Range
    <2>1. i \in 1..Len(order) + Len(s) /\ (order \o s)[i] = order[i]
      BY <1>2, <1>4
    <2>2. QED
      BY <1>4, <2>1 DEF Range
  <1>7. Range(s) \subseteq Range(order \o s)
    <2> SUFFICES ASSUME NEW i \in 1..Len(s) PROVE s[i] \in Range(order \o s)
      BY <1>4 DEF Range
    <2>1. /\ i + Len(order) \in 1..Len(order) + Len(s)
          /\ ~(i + Len(order) <= Len(order)) /\ (i + Len(order)) - Len(order) = i
      BY <1>4
    <2>2. (order \o s)[i + Len(order)] = s[i]
      BY <1>2, <2>1
    <2>3. QED
      BY <1>4, <2>1, <2>2 DEF Range
  <1>8. QED
    BY <1>1, <1>2, <1>3, <1>5, <1>6, <1>7

\* The job an operation waits for is a job.
LEMMA FirstJobIsAJob ==
  ASSUME NEW o
  PROVE  FirstJobOf(o) \in Jobs \cup {NoJob}
  BY DEF FirstJobOf

(***************************************************************************)
(* Types.                                                                  *)
(***************************************************************************)
LEMMA TypeInit == Init => TypeInv
  <1> SUFFICES ASSUME Init PROVE TypeInv
    OBVIOUS
  <1> USE DEF Init
  <1>0. FreshWorker \in Flags
    BY DEF FreshWorker, Flags
  <1>1. flags \in Flags
    BY <1>0, FlagsKept
  <1>2. opList \in Seq(Ops) /\ terminated \in Seq(Jobs)
    BY EmptySeq DEF Ops, ExecutorAssumption
  <1>3. /\ jobOp \in [Jobs -> Ops \cup {NoOp}]
        /\ result \in [Jobs -> Endings \cup {"none"}]
    OBVIOUS
  <1>4. /\ status \in [Jobs -> {"idle", "submitted", "running", "over"}]
        /\ parent \in [Jobs -> Jobs \cup {NoJob}]
    BY DEF Service!Init
  <1>5. pauses \in 0..MaxPauses
    BY DEF ExecutorAssumption
  <1>6. QED
    BY <1>1, <1>2, <1>3, <1>4, <1>5 DEF TypeInv, TypeOK, ListToPop, OngoingHasOp

\* The job manager and its threads change the state of a job, and add a callback.
LEMMA ManagerTypes ==
  ASSUME TypeInv, NEW j \in Jobs, JobManager(j)
  PROVE  TypeInv'
  <1> USE DEF TypeInv, TypeOK, ListToPop, OngoingHasOp
  <1>1. CASE JobStarts(j)
    BY <1>1 DEF JobStarts, Service!Start, outcomeVars
  <1>2. CASE JobDropped(j)
    BY <1>2 DEF JobDropped, Service!Discard, outcomeVars
  <1>3. ASSUME NEW outcome \in Outcomes, JobFinishes(j, outcome)
        PROVE  TypeInv'
    <2>1. outcome \in Endings
      BY DEF ExecutorAssumption
    <2>2. terminated' \in Seq(Jobs)
      BY <1>3 DEF JobFinishes
    <2>3. QED
      BY <1>3, <2>1, <2>2 DEF JobFinishes, Service!Finish, outcomeVars
  <1>4. QED
    BY <1>1, <1>2, <1>3 DEF JobManager

\* Handling the jobs that have finished keeps the types.
LEMMA FinishedTypes ==
  ASSUME TypeInv, NEW next \in {"stop", "wait"}, DeleteFinishedAsyncJobs(next),
         next = "stop" => opList # <<>>
  PROVE  TypeInv'
  <1> USE DEF TypeInv, TypeOK, ListToPop, OngoingHasOp, DeleteFinishedAsyncJobs, serviceVars
  <1>1. terminated' \in Seq(Jobs)
    BY EmptySeq
  <1>2. CASE GivingUp = {}
    <2>1. handled' \subseteq Ops /\ ongoing' \subseteq ongoing
      BY <1>2 DEF Answered
    <2>2. QED
      BY <1>1, <1>2, <2>1
  <1>3. CASE GivingUp # {}
    <2>1. PICK i \in GivingUp :
              /\ handled' = handled \cup {jobOp[terminated[k]] :
                                           k \in {m \in 1..(i - 1) : terminated[m] \in ongoing}}
              /\ Fails(result[terminated[i]])
              /\ pc' = "wait"
      BY <1>3
    <2>2. handled' \subseteq Ops
      BY <2>1
    <2>3. hasError' \in BOOLEAN /\ restart' \in BOOLEAN /\ exitCode' \in {"Unknown", "Ok", "Error"}
      BY <2>1 DEF Fails, CodeOf
    <2>4. ongoing' = {} /\ opList' = <<>> /\ aborted' \subseteq Jobs
      BY <2>1 DEF Fails, CancelAllOngoingJobs
    <2>5. opList' \in Seq(Ops)
      BY <2>4, EmptySeq
    <2>6. QED
      BY <1>1, <2>1, <2>2, <2>3, <2>4, <2>5
  <1>4. QED
    BY <1>2, <1>3

\* A job is created for the first operation of the list.
LEMMA CreateTypes ==
  ASSUME TypeInv, NEW j \in Jobs, CreateJob(j)
  PROVE  TypeInv'
  <1> USE DEF TypeInv, TypeOK, ListToPop, OngoingHasOp, CreateJob, PopOp
  <1>1. Head(opList) \in Ops /\ Tail(opList) \in Seq(Ops)
    BY HeadTailProperties
  <1>2. Head(opList) # NoOp
    BY <1>1 DEF Ops, NoOp, ExecutorAssumption
  <1>3. status' \in [Jobs -> {"idle", "submitted", "running", "over"}]
    BY DEF Service!Submit
  <1>4. parent' \in [Jobs -> Jobs \cup {NoJob}]
    <2> DEFINE p == IF ParentOp[Head(opList)] = NoOp THEN NoJob ELSE FirstJobOf(ParentOp[Head(opList)])
    <2>1. p \in Jobs \cup {NoJob}
      BY FirstJobIsAJob
    <2>2. parent' = [parent EXCEPT ![j] = p]
      BY DEF Service!Submit
    <2> HIDE DEF p
    <2>3. QED
      BY <2>1, <2>2
  <1>5. jobOp' \in [Jobs -> Ops \cup {NoOp}]
    BY <1>1
  <1>6. \A k \in ongoing' : jobOp'[k] # NoOp
    BY <1>2
  <1>7. QED
    BY <1>1, <1>3, <1>4, <1>5, <1>6 DEF outcomeVars

\* An operation is executed in place.
LEMMA ExecuteTypes ==
  ASSUME TypeInv, NEW outcome \in Outcomes, ExecuteOp(outcome)
  PROVE  TypeInv'
  <1> USE DEF TypeInv, TypeOK, ListToPop, OngoingHasOp, ExecuteOp, PopOp, serviceVars
  <1>1. Head(opList) \in Ops /\ Tail(opList) \in Seq(Ops)
    BY HeadTailProperties
  <1>2. CASE GivesUp(outcome)
    <2>1. <<>> \in Seq(Ops)
      BY EmptySeq
    <2>2. QED
      BY <1>2, <2>1 DEF Fails, CodeOf, CancelAllOngoingJobs
  <1>3. CASE ~GivesUp(outcome)
    BY <1>1, <1>3
  <1>4. QED
    BY <1>2, <1>3

\* A pause puts the operations of the jobs back.
LEMMA PauseTypes ==
  ASSUME TypeInv, EnterPause
  PROVE  TypeInv'
  <1> USE DEF TypeInv, TypeOK, ListToPop, OngoingHasOp, EnterPause
  <1>1. flags' \in Flags
    BY FlagsKept
  <1>2. PICK order \in Orders(OngoingOps) : opList' = order \o opList
    BY DEF RescheduleAllOngoingJobs
  <1>3. opList' \in Seq(Ops) /\ (opList # <<>> => opList' # <<>>)
    BY <1>2, OngoingOpsFinite, PutBack
  <1>4. ongoing' = {} /\ aborted' \subseteq Jobs
    BY DEF RescheduleAllOngoingJobs
  <1>5. QED
    BY <1>1, <1>3, <1>4 DEF outcomeVars, serviceVars

LEMMA ExecutorTypes ==
  ASSUME TypeInv, Executor
  PROVE  TypeInv'
  <1> USE DEF TypeInv, TypeOK, ListToPop, OngoingHasOp, outcomeVars, serviceVars
  <1>1. CASE DeleteFinished
    <2>1. CASE opList = <<>>
      BY <1>1, <2>1 DEF DeleteFinished
    <2>2. CASE opList # <<>>
      <3>1. DeleteFinishedAsyncJobs("stop")
        BY <1>1, <2>2 DEF DeleteFinished
      <3> HIDE DEF TypeInv
      <3>2. QED
        BY <2>2, <3>1, FinishedTypes
    <2>3. QED
      BY <2>1, <2>2
  <1>2. CASE TestStop
    BY <1>2, EmptySeq DEF TestStop, CancelAllOngoingJobs
  <1>3. CASE WaitForAllJobsToFinish
    BY <1>3, EmptySeq DEF WaitForAllJobsToFinish, CancelAllOngoingJobs
  <1>4. CASE EnterPause
    BY <1>4, PauseTypes
  <1>5. CASE LeavePause
    BY <1>5, FlagsKept DEF LeavePause
  <1>6. CASE PassPause
    BY <1>6 DEF PassPause
  <1>7. CASE WaitForJobs
    BY <1>7 DEF WaitForJobs
  <1>8. CASE WaitDelete
    BY <1>8, FinishedTypes DEF WaitDelete
  <1>9. CASE Done
    BY <1>9, FlagsKept DEF Done
  <1>10. ASSUME NEW j \in Jobs, CreateJob(j) PROVE TypeInv'
    BY <1>10, CreateTypes
  <1>11. ASSUME NEW outcome \in Outcomes, ExecuteOp(outcome) PROVE TypeInv'
    BY <1>11, ExecuteTypes
  <1>12. QED
    BY <1>1, <1>2, <1>3, <1>4, <1>5, <1>6, <1>7, <1>8, <1>9, <1>10, <1>11 DEF Executor

LEMMA TypeNext == TypeInv /\ [Next]_vars => TypeInv'
  <1> SUFFICES ASSUME TypeInv, [Next]_vars PROVE TypeInv'
    OBVIOUS
  <1>1. CASE Executor
    BY <1>1, ExecutorTypes
  <1>2. ASSUME NEW j \in Jobs, JobManager(j) PROVE TypeInv'
    BY <1>2, ManagerTypes
  <1> USE DEF TypeInv, TypeOK, ListToPop, OngoingHasOp, outcomeVars, serviceVars
  <1>3. CASE AskPause
    <2>1. pauses' \in 0..MaxPauses
      BY <1>3 DEF AskPause, ExecutorAssumption
    <2>2. QED
      BY <1>3, <2>1, FlagsKept DEF AskPause
  <1>4. CASE AskUnpause
    BY <1>4, FlagsKept DEF AskUnpause
  <1>5. CASE AskStop
    BY <1>5, FlagsKept DEF AskStop
  <1>6. CASE UNCHANGED vars
    BY <1>6 DEF vars
  <1>7. QED
    BY <1>1, <1>2, <1>3, <1>4, <1>5, <1>6 DEF Next

\* The state of the executor, its jobs and its list has its types at every step,
\* whatever pauses, stops and callbacks come in between.
THEOREM TypeCorrect == Spec => []TypeOK
  <1>1. TypeInv => TypeOK
    BY DEF TypeInv
  <1>2. QED
    BY <1>1, TypeInit, TypeNext, PTL DEF Spec

(***************************************************************************)
(* Answers.                                                                *)
(***************************************************************************)
\* A job is waited for, or aborted, only once it was given to the manager.
Submitted == \A j \in ongoing \cup aborted : status[j] # "idle"

AnswersInv == TypeInv /\ Submitted /\ OngoingJobsAnswer

LEMMA AnswersInit == Init => AnswersInv
  BY TypeInit DEF AnswersInv, Submitted, OngoingJobsAnswer, Init

LEMMA ManagerAnswers ==
  ASSUME AnswersInv, NEW j \in Jobs, JobManager(j)
  PROVE  Submitted' /\ OngoingJobsAnswer'
  <1> USE DEF AnswersInv, Submitted, OngoingJobsAnswer, TypeInv, TypeOK
  <1>1. CASE JobStarts(j)
    BY <1>1 DEF JobStarts, Service!Start
  <1>2. CASE JobDropped(j)
    BY <1>2 DEF JobDropped, Service!Discard
  <1>3. ASSUME NEW outcome \in Outcomes, JobFinishes(j, outcome)
        PROVE  Submitted' /\ OngoingJobsAnswer'
    <2>1. status' = [status EXCEPT ![j] = "over"] /\ UNCHANGED <<ongoing, aborted>>
      BY <1>3 DEF JobFinishes, Service!Finish
    <2>2. /\ terminated' = Append(terminated, j)
          /\ \A k \in Range(terminated) \cup {j} : k \in Range(Append(terminated, j))
      <3>1. terminated' = Append(terminated, j)
        BY <1>3 DEF JobFinishes
      <3>2. /\ DOMAIN terminated = 1..Len(terminated) /\ Len(terminated) \in Nat
            /\ DOMAIN Append(terminated, j) = 1..Len(terminated) + 1
            /\ \A i \in 1..Len(terminated) : Append(terminated, j)[i] = terminated[i]
            /\ Append(terminated, j)[Len(terminated) + 1] = j
        BY AppendProperties, LenProperties
      <3>3. j \in Range(Append(terminated, j))
        <4>1. Len(terminated) + 1 \in DOMAIN Append(terminated, j)
          BY <3>2
        <4>2. QED
          BY <3>2, <4>1 DEF Range
      <3>4. ASSUME NEW k \in Range(terminated) PROVE k \in Range(Append(terminated, j))
        <4>1. PICK i \in 1..Len(terminated) : terminated[i] = k
          BY <3>2 DEF Range
        <4>2. i \in DOMAIN Append(terminated, j) /\ Append(terminated, j)[i] = k
          BY <3>2, <4>1
        <4>3. QED
          BY <4>2 DEF Range
      <3>5. QED
        BY <3>1, <3>3, <3>4
    <2>3. QED
      BY <2>1, <2>2
  <1>4. QED
    BY <1>1, <1>2, <1>3 DEF JobManager

LEMMA FinishedAnswers ==
  ASSUME AnswersInv, NEW next, DeleteFinishedAsyncJobs(next)
  PROVE  Submitted' /\ OngoingJobsAnswer'
  <1> USE DEF AnswersInv, Submitted, OngoingJobsAnswer, TypeInv, TypeOK, DeleteFinishedAsyncJobs, serviceVars
  <1>1. CASE GivingUp = {}
    <2>1. ongoing' = ongoing \ Answered /\ UNCHANGED <<status, aborted>>
      BY <1>1
    <2>2. \A j \in ongoing' : j \notin Range(terminated)
      BY <2>1 DEF Answered
    <2>3. QED
      BY <2>1, <2>2
  <1>2. CASE GivingUp # {}
    BY <1>2 DEF Fails, CancelAllOngoingJobs
  <1>3. QED
    BY <1>1, <1>2

LEMMA AnswersNext == AnswersInv /\ [Next]_vars => AnswersInv'
  <1> SUFFICES ASSUME AnswersInv, [Next]_vars PROVE AnswersInv'
    OBVIOUS
  <1>1. TypeInv'
    BY TypeNext DEF AnswersInv
  <1>2. Submitted' /\ OngoingJobsAnswer'
    <2>1. ASSUME NEW j \in Jobs, JobManager(j) PROVE Submitted' /\ OngoingJobsAnswer'
      BY <2>1, ManagerAnswers
    <2>2. CASE DeleteFinished \/ WaitDelete
      <3>1. ASSUME NEW next, DeleteFinishedAsyncJobs(next) PROVE Submitted' /\ OngoingJobsAnswer'
        BY <3>1, FinishedAnswers
      <3>2. CASE DeleteFinished /\ opList = <<>>
        BY <3>2 DEF DeleteFinished, AnswersInv, Submitted, OngoingJobsAnswer, serviceVars
      <3>3. QED
        BY <2>2, <3>1, <3>2 DEF DeleteFinished, WaitDelete
    <2> USE DEF AnswersInv, Submitted, OngoingJobsAnswer, TypeInv, TypeOK, outcomeVars, serviceVars
    <2>3. CASE TestStop \/ WaitForAllJobsToFinish
      BY <2>3 DEF TestStop, WaitForAllJobsToFinish, CancelAllOngoingJobs
    <2>4. CASE EnterPause
      BY <2>4 DEF EnterPause, RescheduleAllOngoingJobs
    <2>5. ASSUME NEW j \in Jobs, CreateJob(j) PROVE Submitted' /\ OngoingJobsAnswer'
      BY <2>5 DEF CreateJob, Service!Submit
    <2>6. ASSUME NEW outcome \in Outcomes, ExecuteOp(outcome) PROVE Submitted' /\ OngoingJobsAnswer'
      BY <2>6 DEF ExecuteOp, Fails, CancelAllOngoingJobs
    <2>7. CASE LeavePause \/ PassPause \/ WaitForJobs \/ Done
      BY <2>7 DEF LeavePause, PassPause, WaitForJobs, Done
    <2>8. CASE AskPause \/ AskUnpause \/ AskStop \/ UNCHANGED vars
      BY <2>8 DEF AskPause, AskUnpause, AskStop, vars
    <2>9. QED
      BY <2>1, <2>2, <2>3, <2>4, <2>5, <2>6, <2>7, <2>8 DEF Next, Executor
  <1>3. QED
    BY <1>1, <1>2 DEF AnswersInv

\* The executor never waits for a job that was aborted or will not call back, and
\* so never polls for an answer that cannot come (waitForAllJobsToFinish).
THEOREM JobsWaitedForAnswer == Spec => []OngoingJobsAnswer
  <1>1. AnswersInv => OngoingJobsAnswer
    BY DEF AnswersInv
  <1>2. QED
    BY <1>1, AnswersInit, AnswersNext, PTL DEF Spec

(***************************************************************************)
(* The six ways in which a step moves the operations between the list,     *)
(* the jobs and those that are handled.                                    *)
(***************************************************************************)
Leaves == UNCHANGED <<handled, ongoing, opList, jobOp>>

Answers ==
    /\ handled' = handled \cup {jobOp[j] : j \in Answered}
    /\ ongoing' = ongoing \ Answered
    /\ UNCHANGED <<opList, jobOp>>

PutsBack ==
    /\ ongoing' = {}
    /\ \E order \in Orders(OngoingOps) : opList' = order \o opList
    /\ UNCHANGED <<handled, jobOp>>

Creates ==
    /\ opList # <<>> /\ Head(opList) \in AsyncOps
    /\ opList' = Tail(opList)
    /\ \E j \in Jobs \ ongoing : /\ ongoing' = ongoing \cup {j}
                                 /\ jobOp' = [jobOp EXCEPT ![j] = Head(opList)]
    /\ UNCHANGED handled

Executes ==
    /\ opList # <<>>
    /\ opList' = Tail(opList)
    /\ handled' = handled \cup {Head(opList)}
    /\ UNCHANGED <<ongoing, jobOp>>

\* A stop, or an operation that gives up.
Clears ==
    /\ ongoing' = {} /\ opList' = <<>>
    /\ \E S \in SUBSET OngoingOps : handled' = handled \cup S
    /\ hasError' \/ flags'.stopAsked

LEMMA FinishedMoves ==
  ASSUME AnswersInv, NEW next, DeleteFinishedAsyncJobs(next)
  PROVE  Answers \/ Clears
  <1>1. CASE GivingUp = {}
    BY <1>1 DEF DeleteFinishedAsyncJobs, Answers
  <1>2. CASE GivingUp # {}
    <2>1. PICK i \in GivingUp :
              /\ handled' = handled \cup {jobOp[terminated[k]] :
                                           k \in {m \in 1..(i - 1) : terminated[m] \in ongoing}}
              /\ Fails(result[terminated[i]])
      BY <1>2 DEF DeleteFinishedAsyncJobs
    <2>2. {jobOp[terminated[k]] : k \in {m \in 1..(i - 1) : terminated[m] \in ongoing}}
             \in SUBSET OngoingOps
      BY DEF OngoingOps
    <2>3. QED
      BY <2>1, <2>2 DEF Clears, Fails, CancelAllOngoingJobs
  <1>3. QED
    BY <1>1, <1>2

LEMMA Moves ==
  ASSUME AnswersInv, [Next]_vars
  PROVE  Leaves \/ Answers \/ PutsBack \/ Creates \/ Executes \/ Clears
  <1>1. CASE DeleteFinished \/ WaitDelete
    <2>1. CASE DeleteFinished /\ opList = <<>>
      BY <2>1 DEF DeleteFinished, Leaves, outcomeVars
    <2>2. QED
      BY <1>1, <2>1, FinishedMoves DEF DeleteFinished, WaitDelete
  <1>2. CASE TestStop \/ WaitForAllJobsToFinish
    <2>1. UNCHANGED <<handled, jobOp, flags, hasError>>
      BY <1>2 DEF TestStop, WaitForAllJobsToFinish, outcomeVars
    <2>2. \/ UNCHANGED <<opList, ongoing>>
          \/ ongoing' = {} /\ opList' = <<>> /\ flags.stopAsked
      BY <1>2 DEF TestStop, WaitForAllJobsToFinish, CancelAllOngoingJobs
    <2>3. handled' = handled \cup {} /\ {} \in SUBSET OngoingOps
      BY <2>1
    <2>4. QED
      BY <2>1, <2>2, <2>3 DEF Leaves, Clears
  <1>3. CASE EnterPause
    BY <1>3 DEF EnterPause, RescheduleAllOngoingJobs, PutsBack, outcomeVars
  <1>4. ASSUME NEW j \in Jobs, CreateJob(j) PROVE Creates
    <2>1. j \notin ongoing
      BY <1>4 DEF AnswersInv, Submitted, CreateJob, Service!Submit
    <2>2. opList # <<>>
      BY <1>4 DEF AnswersInv, TypeInv, ListToPop, CreateJob, PopOp
    <2>3. QED
      BY <1>4, <2>1, <2>2 DEF CreateJob, Creates, outcomeVars
  <1>5. ASSUME NEW outcome \in Outcomes, ExecuteOp(outcome) PROVE Executes \/ Clears
    <2>1. CASE GivesUp(outcome)
      <3>1. handled' = handled \cup {} /\ {} \in SUBSET OngoingOps
        BY <1>5, <2>1 DEF ExecuteOp
      <3>2. QED
        BY <1>5, <2>1, <3>1 DEF ExecuteOp, Clears, Fails, CancelAllOngoingJobs
    <2>2. CASE ~GivesUp(outcome)
      BY <1>5, <2>2 DEF ExecuteOp, PopOp, Executes, AnswersInv, TypeInv, ListToPop
    <2>3. QED
      BY <2>1, <2>2
  <1>6. CASE LeavePause \/ PassPause \/ WaitForJobs \/ Done
    BY <1>6 DEF LeavePause, PassPause, WaitForJobs, Done, Leaves, outcomeVars
  <1>7. CASE AskPause \/ AskUnpause \/ AskStop \/ UNCHANGED vars
    BY <1>7 DEF AskPause, AskUnpause, AskStop, vars, Leaves, outcomeVars
  <1>8. ASSUME NEW j \in Jobs, JobManager(j) PROVE Leaves
    BY <1>8 DEF JobManager, JobStarts, JobDropped, JobFinishes, Leaves, outcomeVars
  <1>9. QED
    BY <1>1, <1>2, <1>3, <1>4, <1>5, <1>6, <1>7, <1>8 DEF Next, Executor

(***************************************************************************)
(* Lists and the operations in progress.                                   *)
(***************************************************************************)
OnceEach(s) == \A i, k \in DOMAIN s : s[i] = s[k] => i = k

LEMMA HeadAndTail ==
  ASSUME NEW s \in Seq(Ops), s # <<>>
  PROVE  /\ Head(s) \in Ops /\ Tail(s) \in Seq(Ops) /\ Head(s) = s[1]
         /\ DOMAIN s = 1..Len(s) /\ Len(s) \in Nat \ {0} /\ DOMAIN Tail(s) = 1..(Len(s) - 1)
         /\ \A i \in DOMAIN Tail(s) : i + 1 \in DOMAIN s /\ Tail(s)[i] = s[i + 1]
         /\ Range(s) = {Head(s)} \cup Range(Tail(s))
         /\ OnceEach(s) => OnceEach(Tail(s)) /\ Head(s) \notin Range(Tail(s))
  <1>1. /\ Head(s) \in Ops /\ Tail(s) \in Seq(Ops) /\ Head(s) = s[1]
        /\ Len(s) \in Nat \ {0} /\ DOMAIN s = 1..Len(s)
        /\ Len(Tail(s)) = Len(s) - 1
        /\ \A i \in 1..Len(Tail(s)) : Tail(s)[i] = s[i + 1]
    BY HeadTailProperties, LenProperties, EmptySeq
  <1>2. /\ DOMAIN Tail(s) = 1..(Len(s) - 1)
        /\ \A i \in DOMAIN Tail(s) : i + 1 \in DOMAIN s /\ Tail(s)[i] = s[i + 1]
    BY <1>1, LenProperties
  <1>3. Range(s) \subseteq {Head(s)} \cup Range(Tail(s))
    <2> SUFFICES ASSUME NEW i \in DOMAIN s, i # 1 PROVE s[i] \in Range(Tail(s))
      BY <1>1 DEF Range
    <2>1. i - 1 \in DOMAIN Tail(s) /\ Tail(s)[i - 1] = s[i]
      <3>1. i - 1 \in DOMAIN Tail(s) /\ (i - 1) + 1 = i
        BY <1>1, <1>2
      <3>2. QED
        BY <1>2, <3>1
    <2>2. QED
      BY <2>1 DEF Range
  <1>4. Head(s) \in Range(s) /\ Range(Tail(s)) \subseteq Range(s)
    <2>1. 1 \in DOMAIN s
      BY <1>1
    <2>2. QED
      BY <1>1, <1>2, <2>1 DEF Range
  <1>5. ASSUME OnceEach(s) PROVE OnceEach(Tail(s)) /\ Head(s) \notin Range(Tail(s))
    <2>1. OnceEach(Tail(s))
      <3> SUFFICES ASSUME NEW i \in DOMAIN Tail(s), NEW k \in DOMAIN Tail(s), Tail(s)[i] = Tail(s)[k]
                   PROVE  i = k
        BY DEF OnceEach
      <3>1. i + 1 = k + 1
        BY <1>2, <1>5 DEF OnceEach
      <3>2. QED
        BY <1>2, <3>1
    <2>2. ASSUME NEW i \in DOMAIN Tail(s), Tail(s)[i] = Head(s) PROVE FALSE
      <3>1. s[i + 1] = s[1] /\ i + 1 \in DOMAIN s /\ 1 \in DOMAIN s /\ i \in 1..(Len(s) - 1)
        BY <1>1, <1>2, <2>2
      <3>2. i + 1 = 1
        BY <1>5, <3>1 DEF OnceEach
      <3>3. QED
        BY <3>1, <3>2
    <2>3. QED
      BY <2>1, <2>2 DEF Range
  <1>6. QED
    BY <1>1, <1>2, <1>3, <1>4, <1>5

\* Putting other operations in front keeps each of them once.
LEMMA PutBackOnce ==
  ASSUME NEW s \in Seq(Ops), NEW S \in SUBSET Ops, Cardinality(S) \in Nat, NEW order \in Orders(S),
         OnceEach(s), S \cap Range(s) = {}
  PROVE  OnceEach(order \o s)
  <1>1. /\ order \in Seq(Ops) /\ Range(order) = S /\ OnceEach(order)
    BY OrderIsASeq DEF OnceEach
  <1>2. /\ DOMAIN order = 1..Len(order) /\ DOMAIN s = 1..Len(s)
        /\ Len(order) \in Nat /\ Len(s) \in Nat
        /\ DOMAIN (order \o s) = 1..Len(order) + Len(s)
        /\ \A i \in 1..Len(order) + Len(s) :
              (order \o s)[i] = IF i <= Len(order) THEN order[i] ELSE s[i - Len(order)]
    <2>1. /\ order \o s \in Seq(Ops)
          /\ Len(order \o s) = Len(order) + Len(s)
          /\ \A i \in 1..Len(order) + Len(s) :
                (order \o s)[i] = IF i <= Len(order) THEN order[i] ELSE s[i - Len(order)]
      BY <1>1, ConcatProperties
    <2>2. QED
      BY <1>1, <2>1, LenProperties
  <1>3. ASSUME NEW i \in 1..Len(order) + Len(s)
        PROVE  \/ i \in DOMAIN order /\ (order \o s)[i] = order[i] /\ order[i] \in S
               \/ /\ i - Len(order) \in DOMAIN s /\ (order \o s)[i] = s[i - Len(order)]
                  /\ s[i - Len(order)] \in Range(s)
    <2>1. CASE i <= Len(order)
      BY <1>1, <1>2, <2>1 DEF Range
    <2>2. CASE ~(i <= Len(order))
      <3>1. i - Len(order) \in DOMAIN s /\ (order \o s)[i] = s[i - Len(order)]
        BY <1>2, <2>2
      <3>2. QED
        BY <3>1 DEF Range
    <2>3. QED
      BY <2>1, <2>2
  <1>4. ASSUME NEW i \in 1..Len(order) + Len(s), NEW k \in 1..Len(order) + Len(s),
               (order \o s)[i] = (order \o s)[k]
        PROVE  i = k
    <2>1. CASE i \in DOMAIN order /\ k \in DOMAIN order /\ order[i] = order[k]
      BY <1>1, <2>1 DEF OnceEach
    <2>2. CASE /\ i - Len(order) \in DOMAIN s /\ k - Len(order) \in DOMAIN s
               /\ s[i - Len(order)] = s[k - Len(order)]
      <3>1. i - Len(order) = k - Len(order)
        BY <2>2 DEF OnceEach
      <3>2. QED
        BY <1>2, <3>1
    <2>3. QED
      BY <1>3, <1>4, <2>1, <2>2
  <1>5. QED
    BY <1>2, <1>4 DEF OnceEach

(***************************************************************************)
(* Each operation at one place.                                            *)
(***************************************************************************)
OnceInv == AnswersInv /\ NoOpTwice

LEMMA OnceInit == Init => OnceInv
  <1> SUFFICES ASSUME Init PROVE OnceInv
    OBVIOUS
  <1>1. AnswersInv
    BY AnswersInit
  <1>2. NoOpTwice
    BY DEF Init, NoOpTwice, OngoingOps
  <1>3. QED
    BY <1>1, <1>2 DEF OnceInv

\* What the answers take from the jobs, they give to the operations handled.
LEMMA AnswersMove ==
  ASSUME OnceInv, Answers
  PROVE  /\ OngoingOps' = OngoingOps \ {jobOp[j] : j \in Answered}
         /\ handled' \cup OngoingOps' = handled \cup OngoingOps
         /\ handled' \cap OngoingOps' = {}
  BY DEF Answers, Answered, OngoingOps, OnceInv, NoOpTwice

\* What a job that is created takes from the list.
LEMMA CreatesMove ==
  ASSUME OnceInv, Creates
  PROVE  OngoingOps' = OngoingOps \cup {Head(opList)}
  <1>1. PICK j \in Jobs \ ongoing : /\ ongoing' = ongoing \cup {j}
                                   /\ jobOp' = [jobOp EXCEPT ![j] = Head(opList)]
    BY DEF Creates
  <1>2. /\ jobOp'[j] = Head(opList)
        /\ \A k \in ongoing : jobOp'[k] = jobOp[k]
    BY <1>1 DEF OnceInv, AnswersInv, TypeInv, TypeOK
  <1>3. QED
    BY <1>1, <1>2 DEF OngoingOps

LEMMA OnceNext == OnceInv /\ [Next]_vars => OnceInv'
  <1> SUFFICES ASSUME OnceInv, [Next]_vars PROVE OnceInv'
    OBVIOUS
  <1>1. AnswersInv' /\ AnswersInv
    BY AnswersNext DEF OnceInv
  <1>2. opList \in Seq(Ops)
    BY <1>1 DEF AnswersInv, TypeInv, TypeOK
  <1>3. CASE Leaves
    <2>1. UNCHANGED <<handled, ongoing, opList, jobOp>>
      BY <1>3 DEF Leaves
    <2>2. OngoingOps' = OngoingOps /\ Range(opList') = Range(opList)
      BY <2>1 DEF OngoingOps
    <2>3. QED
      BY <1>1, <2>1, <2>2 DEF OnceInv, NoOpTwice
  <1>4. CASE Answers
    <2>1. /\ handled' \cup OngoingOps' = handled \cup OngoingOps
          /\ handled' \cap OngoingOps' = {} /\ OngoingOps' \subseteq OngoingOps
      BY <1>4, AnswersMove
    <2>2. UNCHANGED <<opList, jobOp>> /\ ongoing' \subseteq ongoing
      BY <1>4 DEF Answers
    <2>3. Range(opList') = Range(opList)
      BY <2>2
    <2>4. Range(opList) \cap (handled' \cup OngoingOps') = {}
      BY <2>1 DEF OnceInv, NoOpTwice
    <2>5. \A j, k \in ongoing' : jobOp'[j] = jobOp'[k] => j = k
      BY <2>2 DEF OnceInv, NoOpTwice
    <2>6. \A i, k \in DOMAIN opList' : opList'[i] = opList'[k] => i = k
      BY <2>2 DEF OnceInv, NoOpTwice
    <2>7. QED
      BY <1>1, <2>1, <2>3, <2>4, <2>5, <2>6 DEF OnceInv, NoOpTwice
  <1>5. CASE PutsBack
    <2>1. PICK order \in Orders(OngoingOps) : opList' = order \o opList
      BY <1>5 DEF PutsBack
    <2>2. /\ OnceEach(opList) /\ OngoingOps \cap Range(opList) = {}
          /\ handled \cap (OngoingOps \cup Range(opList)) = {}
      BY DEF OnceInv, NoOpTwice, OnceEach
    <2>3. OngoingOps \subseteq Ops /\ Cardinality(OngoingOps) \in Nat
      BY <1>1, OngoingOpsFinite DEF AnswersInv
    <2>4. OnceEach(opList') /\ Range(opList') = OngoingOps \cup Range(opList)
      BY <1>2, <2>1, <2>2, <2>3, PutBack, PutBackOnce
    <2>5. ongoing' = {} /\ handled' = handled /\ OngoingOps' = {}
      BY <1>5 DEF PutsBack, OngoingOps
    <2>6. QED
      BY <1>1, <2>2, <2>4, <2>5 DEF OnceInv, NoOpTwice, OnceEach
  <1>6. CASE Creates
    <2>1. OngoingOps' = OngoingOps \cup {Head(opList)}
      BY <1>6, CreatesMove
    <2>2. opList # <<>> /\ opList' = Tail(opList) /\ handled' = handled
      BY <1>6 DEF Creates
    <2>3. /\ Range(opList) = {Head(opList)} \cup Range(opList')
          /\ OnceEach(opList') /\ Head(opList) \notin Range(opList')
      BY <1>2, <2>2, HeadAndTail DEF OnceInv, NoOpTwice, OnceEach
    <2>4. \A j, k \in ongoing' : jobOp'[j] = jobOp'[k] => j = k
      <3>1. PICK j \in Jobs \ ongoing : /\ ongoing' = ongoing \cup {j}
                                       /\ jobOp' = [jobOp EXCEPT ![j] = Head(opList)]
        BY <1>6 DEF Creates
      <3>2. jobOp'[j] = Head(opList) /\ \A k \in ongoing : jobOp'[k] = jobOp[k]
        BY <1>1, <3>1 DEF AnswersInv, TypeInv, TypeOK
      <3>3. \A k \in ongoing : jobOp[k] # Head(opList)
        BY <2>3 DEF OnceInv, NoOpTwice, OngoingOps
      <3>4. QED
        BY <3>1, <3>2, <3>3 DEF OnceInv, NoOpTwice
    <2>5. QED
      BY <1>1, <2>1, <2>2, <2>3, <2>4 DEF OnceInv, NoOpTwice, OnceEach
  <1>7. CASE Executes
    <2>1. /\ opList # <<>> /\ opList' = Tail(opList) /\ UNCHANGED <<ongoing, jobOp>>
          /\ handled' = handled \cup {Head(opList)} /\ OngoingOps' = OngoingOps
      BY <1>7 DEF Executes, OngoingOps
    <2>2. /\ Range(opList) = {Head(opList)} \cup Range(opList')
          /\ OnceEach(opList') /\ Head(opList) \notin Range(opList')
      BY <1>2, <2>1, HeadAndTail DEF OnceInv, NoOpTwice, OnceEach
    <2>3. QED
      BY <1>1, <2>1, <2>2 DEF OnceInv, NoOpTwice, OnceEach
  <1>8. CASE Clears
    <2>1. OngoingOps' = {} /\ Range(opList') = {} /\ ongoing' = {} /\ DOMAIN opList' = {}
      BY <1>8 DEF Clears, OngoingOps, Range
    <2>2. QED
      BY <1>1, <2>1 DEF OnceInv, NoOpTwice
  <1>9. QED
    BY <1>1, <1>3, <1>4, <1>5, <1>6, <1>7, <1>8, Moves

\* No operation is in the list twice, both in the list and waited for, or anywhere
\* but among those handled once its result was propagated (cancelAllOngoingJobs).
THEOREM OperationsAreNotDoubled == Spec => []NoOpTwice
  <1>1. OnceInv => NoOpTwice
    BY DEF OnceInv
  <1>2. QED
    BY <1>1, OnceInit, OnceNext, PTL DEF Spec

(***************************************************************************)
(* All the operations.                                                     *)
(***************************************************************************)
Going == ~hasError /\ ~flags.stopAsked /\ pc # "done"

Complete == Going => Ops = handled \cup OngoingOps \cup Range(opList)

\* The thread leaves its loops with nothing to start and nothing to wait for.
NothingLeft == pc = "end" => ongoing = {} /\ opList = <<>>

\* An operation that gave up leaves an error, or a restart asked for.
FailureIsKnown == hasError => exitCode = "Error" \/ restart

CompleteInv == OnceInv /\ Complete /\ NothingLeft /\ FailureIsKnown

LEMMA CompleteInit == Init => CompleteInv
  <1> SUFFICES ASSUME Init PROVE CompleteInv
    OBVIOUS
  <1>1. OnceInv
    BY OnceInit
  <1>2. Range(opList) = Ops
    BY DEF Init, Range
  <1>3. handled \cup OngoingOps = {} /\ pc = "delete" /\ hasError = FALSE
    BY DEF Init, OngoingOps
  <1>4. QED
    BY <1>1, <1>2, <1>3 DEF CompleteInv, Complete, NothingLeft, FailureIsKnown

\* An error, a stop and the end of the thread are not taken back.
LEMMA GoingStaysSo ==
  ASSUME OnceInv, [Next]_vars, Going'
  PROVE  Going
  <1> USE DEF Going, OnceInv, AnswersInv, TypeInv, TypeOK, outcomeVars, serviceVars
  <1>1. CASE DeleteFinished \/ WaitDelete
    BY <1>1 DEF DeleteFinished, WaitDelete, DeleteFinishedAsyncJobs, Fails
  <1>2. CASE TestStop \/ WaitForAllJobsToFinish
    BY <1>2 DEF TestStop, WaitForAllJobsToFinish
  <1>3. CASE EnterPause \/ LeavePause \/ PassPause \/ WaitForJobs \/ Done
    BY <1>3 DEF EnterPause, LeavePause, PassPause, WaitForJobs, Done, Flags, SetPauseDone, SetUnpauseDone
  <1>4. ASSUME NEW j \in Jobs, CreateJob(j) PROVE Going
    BY <1>4 DEF CreateJob, PopOp
  <1>5. ASSUME NEW outcome \in Outcomes, ExecuteOp(outcome) PROVE Going
    BY <1>5 DEF ExecuteOp, PopOp, Fails
  <1>6. CASE AskPause \/ AskUnpause \/ AskStop \/ UNCHANGED vars
    BY <1>6 DEF AskPause, AskUnpause, AskStop, vars, Flags, Pause, Unpause, Stop
  <1>7. ASSUME NEW j \in Jobs, JobManager(j) PROVE Going
    BY <1>7 DEF JobManager, JobStarts, JobDropped, JobFinishes
  <1>8. QED
    BY <1>1, <1>2, <1>3, <1>4, <1>5, <1>6, <1>7 DEF Next, Executor

\* How the thread comes to its end and stays there.
LEMMA EndReached ==
  ASSUME OnceInv, NothingLeft, [Next]_vars
  PROVE  NothingLeft'
  <1> USE DEF NothingLeft, OnceInv, AnswersInv, TypeInv, TypeOK, outcomeVars, serviceVars
  <1>1. CASE DeleteFinished \/ WaitDelete
    BY <1>1 DEF DeleteFinished, WaitDelete, DeleteFinishedAsyncJobs
  <1>2. CASE TestStop \/ WaitForAllJobsToFinish
    BY <1>2 DEF TestStop, WaitForAllJobsToFinish, CancelAllOngoingJobs
  <1>3. CASE EnterPause \/ LeavePause \/ PassPause \/ WaitForJobs \/ Done
    BY <1>3 DEF EnterPause, LeavePause, PassPause, WaitForJobs, Done
  <1>4. ASSUME NEW j \in Jobs, CreateJob(j) PROVE NothingLeft'
    BY <1>4 DEF CreateJob, PopOp
  <1>5. ASSUME NEW outcome \in Outcomes, ExecuteOp(outcome) PROVE NothingLeft'
    BY <1>5 DEF ExecuteOp, PopOp
  <1>6. CASE AskPause \/ AskUnpause \/ AskStop \/ UNCHANGED vars
    BY <1>6 DEF AskPause, AskUnpause, AskStop, vars
  <1>7. ASSUME NEW j \in Jobs, JobManager(j) PROVE NothingLeft'
    BY <1>7 DEF JobManager, JobStarts, JobDropped, JobFinishes
  <1>8. QED
    BY <1>1, <1>2, <1>3, <1>4, <1>5, <1>6, <1>7 DEF Next, Executor

\* What Fails leaves behind.
LEMMA FailsIsKnown ==
  ASSUME TypeInv, NEW outcome \in Endings, GivesUp(outcome), Fails(outcome)
  PROVE  exitCode' = "Error" \/ restart'
  BY DEF Fails, CodeOf, GivesUp

LEMMA FailureStaysKnown ==
  ASSUME OnceInv, FailureIsKnown, [Next]_vars
  PROVE  FailureIsKnown'
  <1> USE DEF FailureIsKnown, OnceInv, AnswersInv, outcomeVars, serviceVars
  <1>1. ASSUME NEW next, DeleteFinishedAsyncJobs(next) PROVE FailureIsKnown'
    <2>1. CASE GivingUp = {}
      BY <1>1, <2>1 DEF DeleteFinishedAsyncJobs
    <2>2. CASE GivingUp # {}
      <3>1. PICK i \in GivingUp : Fails(result[terminated[i]])
        BY <1>1, <2>2 DEF DeleteFinishedAsyncJobs
      <3>2. GivesUp(result[terminated[i]]) /\ result[terminated[i]] \in Endings
        BY DEF GivingUp, GivesUp, Endings
      <3>3. QED
        BY <3>1, <3>2, FailsIsKnown
    <2>3. QED
      BY <2>1, <2>2
  <1>2. CASE DeleteFinished \/ WaitDelete
    BY <1>1, <1>2 DEF DeleteFinished, WaitDelete
  <1>3. CASE TestStop \/ WaitForAllJobsToFinish
    BY <1>3 DEF TestStop, WaitForAllJobsToFinish
  <1>4. CASE EnterPause \/ LeavePause \/ PassPause \/ WaitForJobs \/ Done
    BY <1>4 DEF EnterPause, LeavePause, PassPause, WaitForJobs, Done
  <1>5. ASSUME NEW j \in Jobs, CreateJob(j) PROVE FailureIsKnown'
    BY <1>5 DEF CreateJob
  <1>6. ASSUME NEW outcome \in Outcomes, ExecuteOp(outcome) PROVE FailureIsKnown'
    <2>1. CASE GivesUp(outcome)
      <3>1. outcome \in Endings
        BY DEF ExecutorAssumption
      <3>2. QED
        BY <1>6, <2>1, <3>1, FailsIsKnown DEF ExecuteOp
    <2>2. CASE ~GivesUp(outcome)
      BY <1>6, <2>2 DEF ExecuteOp
    <2>3. QED
      BY <2>1, <2>2
  <1>7. CASE AskPause \/ AskUnpause \/ AskStop \/ UNCHANGED vars
    BY <1>7 DEF AskPause, AskUnpause, AskStop, vars
  <1>8. ASSUME NEW j \in Jobs, JobManager(j) PROVE FailureIsKnown'
    BY <1>8 DEF JobManager, JobStarts, JobDropped, JobFinishes
  <1>9. QED
    BY <1>2, <1>3, <1>4, <1>5, <1>6, <1>7, <1>8 DEF Next, Executor

LEMMA CompleteNext == CompleteInv /\ [Next]_vars => CompleteInv'
  <1> SUFFICES ASSUME CompleteInv, [Next]_vars PROVE CompleteInv'
    OBVIOUS
  <1>1. OnceInv /\ OnceInv' /\ AnswersInv
    BY OnceNext DEF CompleteInv, OnceInv
  <1>2. NothingLeft' /\ FailureIsKnown'
    BY <1>1, EndReached, FailureStaysKnown DEF CompleteInv
  <1>3. ASSUME Going' PROVE Ops = handled' \cup OngoingOps' \cup Range(opList')
    <2>1. Ops = handled \cup OngoingOps \cup Range(opList)
      BY <1>1, <1>3, GoingStaysSo DEF CompleteInv, Complete
    <2>2. opList \in Seq(Ops)
      BY <1>1 DEF AnswersInv, TypeInv, TypeOK
    <2>3. CASE Leaves
      <3>1. OngoingOps' = OngoingOps /\ Range(opList') = Range(opList) /\ handled' = handled
        BY <2>3 DEF Leaves, OngoingOps
      <3>2. QED
        BY <2>1, <3>1
    <2>4. CASE Answers
      <3>1. handled' \cup OngoingOps' = handled \cup OngoingOps
        BY <1>1, <2>4, AnswersMove
      <3>2. Range(opList') = Range(opList)
        BY <2>4 DEF Answers
      <3>3. QED
        BY <2>1, <3>1, <3>2
    <2>5. CASE PutsBack
      <3>1. PICK order \in Orders(OngoingOps) : opList' = order \o opList
        BY <2>5 DEF PutsBack
      <3>2. Range(opList') = OngoingOps \cup Range(opList)
        BY <1>1, <2>2, <3>1, OngoingOpsFinite, PutBack DEF AnswersInv
      <3>3. handled' = handled /\ OngoingOps' = {}
        BY <2>5 DEF PutsBack, OngoingOps
      <3>4. QED
        BY <2>1, <3>2, <3>3
    <2>6. CASE Creates
      <3>1. OngoingOps' = OngoingOps \cup {Head(opList)}
        BY <1>1, <2>6, CreatesMove
      <3>2. Range(opList) = {Head(opList)} \cup Range(opList') /\ handled' = handled
        BY <2>2, <2>6, HeadAndTail DEF Creates
      <3>3. QED
        BY <2>1, <3>1, <3>2
    <2>7. CASE Executes
      <3>1. OngoingOps' = OngoingOps /\ handled' = handled \cup {Head(opList)}
        BY <2>7 DEF Executes, OngoingOps
      <3>2. Range(opList) = {Head(opList)} \cup Range(opList')
        BY <2>2, <2>7, HeadAndTail DEF Executes
      <3>3. QED
        BY <2>1, <3>1, <3>2
    <2>8. CASE Clears
      BY <1>3, <2>8 DEF Clears, Going
    <2>9. QED
      BY <1>1, <2>3, <2>4, <2>5, <2>6, <2>7, <2>8, Moves
  <1>4. QED
    BY <1>1, <1>2, <1>3 DEF CompleteInv, Complete

\* No operation is lost between the list and the jobs, however often a pause moves
\* them back, and a thread that ends without error has handled them all (execute).
THEOREM OperationsAreNotForgotten == Spec => []NoOpForgotten
  <1>1. ASSUME CompleteInv PROVE NoOpForgotten
    <2>1. pc = "end" => OngoingOps = {} /\ Range(opList) = {}
      BY <1>1 DEF CompleteInv, NothingLeft, OngoingOps, Range
    <2>2. QED
      BY <1>1, <2>1 DEF CompleteInv, Complete, Going, NoOpForgotten
  <1>2. QED
    BY <1>1, CompleteInit, CompleteNext, PTL DEF Spec

\* The results dropped with the one that gave up, and the jobs cancelled with it,
\* are never passed off as a success (deleteFinishedAsyncJobs, handleFinishedJob).
THEOREM SuccessMeansAll == Spec => []SuccessIsWhole
  <1>1. ASSUME CompleteInv PROVE SuccessIsWhole
    <2>1. pc = "end" => OngoingOps = {} /\ Range(opList) = {}
      BY <1>1 DEF CompleteInv, NothingLeft, OngoingOps, Range
    <2>2. hasError => exitCode = "Error" \/ restart
      BY <1>1 DEF CompleteInv, FailureIsKnown
    <2>3. QED
      BY <1>1, <2>1, <2>2 DEF CompleteInv, Complete, Going, SuccessIsWhole
  <1>2. QED
    BY <1>1, CompleteInit, CompleteNext, PTL DEF Spec

(***************************************************************************)
(* The order of the operations.                                            *)
(***************************************************************************)
\* The parent of an operation of the list is handled, or comes before it.
ListOrdered ==
    \A i \in DOMAIN opList :
        LET p == ParentOp[opList[i]]
        IN  p # NoOp => p \in handled \/ \E k \in 1..(i - 1) : opList[k] = p

OrderInv == OnceInv /\ ListOrdered /\ ParentOpFirst

LEMMA OrderInit == Init => OrderInv
  <1> SUFFICES ASSUME Init PROVE OrderInv
    OBVIOUS
  <1>1. OnceInv
    BY OnceInit
  <1>2. ListOrdered
    <2> SUFFICES ASSUME NEW i \in Ops, ParentOp[i] # NoOp
                 PROVE  \E k \in 1..(i - 1) : opList[k] = ParentOp[i]
      BY DEF ListOrdered, Init
    <2>1. ParentOp[i] \in Ops /\ ParentOp[i] < i
      BY DEF ExecutorAssumption
    <2>2. ParentOp[i] \in 1..(i - 1) /\ opList[ParentOp[i]] = ParentOp[i]
      BY <2>1 DEF Ops, Init, ExecutorAssumption
    <2>3. QED
      BY <2>2
  <1>3. ParentOpFirst
    BY DEF Init, ParentOpFirst, OngoingOps
  <1>4. QED
    BY <1>1, <1>2, <1>3 DEF OrderInv

\* The parent of the first operation is handled.
LEMMA HeadMayStart ==
  ASSUME OrderInv, opList # <<>>, ParentOp[Head(opList)] # NoOp
  PROVE  ParentOp[Head(opList)] \in handled
  <1>1. 1 \in DOMAIN opList /\ opList[1] = Head(opList)
    BY HeadAndTail DEF OrderInv, OnceInv, AnswersInv, TypeInv, TypeOK
  <1>2. QED
    BY <1>1 DEF OrderInv, ListOrdered

\* The rest of the list keeps its order, once its first operation is handled or
\* is given to a job, which no other operation waits for.
LEMMA TailOrdered ==
  ASSUME OrderInv, opList # <<>>, opList' = Tail(opList), handled \subseteq handled',
         Head(opList) \in handled' \/ Head(opList) \in AsyncOps
  PROVE  ListOrdered'
  <1>1. /\ opList \in Seq(Ops) /\ Head(opList) = opList[1]
        /\ DOMAIN opList = 1..Len(opList) /\ Len(opList) \in Nat \ {0}
        /\ DOMAIN Tail(opList) = 1..(Len(opList) - 1)
        /\ \A i \in DOMAIN Tail(opList) : i + 1 \in DOMAIN opList /\ Tail(opList)[i] = opList[i + 1]
    BY HeadAndTail DEF OrderInv, OnceInv, AnswersInv, TypeInv, TypeOK
  <1> SUFFICES ASSUME NEW i \in DOMAIN opList', ParentOp[opList'[i]] # NoOp
               PROVE  \/ ParentOp[opList'[i]] \in handled'
                      \/ \E k \in 1..(i - 1) : opList'[k] = ParentOp[opList'[i]]
    BY DEF ListOrdered
  <1> DEFINE p == ParentOp[opList'[i]]
  <1>2. i \in 1..(Len(opList) - 1) /\ i + 1 \in DOMAIN opList /\ opList'[i] = opList[i + 1]
    BY <1>1
  <1>3. p \in handled \/ \E k \in 1..((i + 1) - 1) : opList[k] = p
    BY <1>2 DEF OrderInv, ListOrdered
  <1>4. opList[i + 1] \in Ops
    BY <1>1, <1>2
  <1>5. p \notin AsyncOps
    <2>1. ParentOp[opList[i + 1]] \in {NoOp} \cup (Ops \ AsyncOps)
      BY <1>4 DEF ExecutorAssumption
    <2>2. QED
      BY <1>2, <2>1
  <1>6. CASE p \in handled
    BY <1>6
  <1>7. ASSUME NEW k \in 1..((i + 1) - 1), opList[k] = p
        PROVE  p \in handled' \/ \E m \in 1..(i - 1) : opList'[m] = p
    <2>1. CASE k = 1
      BY <1>1, <1>5, <1>7, <2>1
    <2>2. CASE k # 1
      <3>1. /\ k - 1 \in 1..(i - 1) /\ k - 1 \in DOMAIN Tail(opList) /\ (k - 1) + 1 = k
        BY <1>1, <1>2, <2>2
      <3>2. opList'[k - 1] = p
        BY <1>1, <1>7, <3>1
      <3>3. QED
        BY <3>1, <3>2
    <2>3. QED
      BY <2>1, <2>2
  <1>8. QED
    BY <1>3, <1>6, <1>7

\* Operations put back in front of the list were started, so their parents are
\* handled; the order of the others is kept.
LEMMA PutBackOrdered ==
  ASSUME OrderInv, PutsBack
  PROVE  ListOrdered'
  <1>1. PICK order \in Orders(OngoingOps) : opList' = order \o opList
    BY DEF PutsBack
  <1>2. handled' = handled
    BY DEF PutsBack
  <1>3. opList \in Seq(Ops) /\ OngoingOps \in SUBSET Ops /\ Cardinality(OngoingOps) \in Nat
    BY OngoingOpsFinite DEF OrderInv, OnceInv, AnswersInv, TypeInv, TypeOK
  <1>4. order \in Seq(Ops) /\ Range(order) = OngoingOps
    BY <1>3, OrderIsASeq
  <1>5. /\ DOMAIN order = 1..Len(order) /\ DOMAIN opList = 1..Len(opList)
        /\ Len(order) \in Nat /\ Len(opList) \in Nat
        /\ DOMAIN opList' = 1..Len(order) + Len(opList)
        /\ \A i \in 1..Len(order) + Len(opList) :
              opList'[i] = IF i <= Len(order) THEN order[i] ELSE opList[i - Len(order)]
    <2>1. /\ order \o opList \in Seq(Ops)
          /\ Len(order \o opList) = Len(order) + Len(opList)
          /\ \A i \in 1..Len(order) + Len(opList) :
                (order \o opList)[i] = IF i <= Len(order) THEN order[i] ELSE opList[i - Len(order)]
      BY <1>3, <1>4, ConcatProperties
    <2>2. QED
      BY <1>1, <1>3, <1>4, <2>1, LenProperties
  <1> SUFFICES ASSUME NEW i \in 1..Len(order) + Len(opList), ParentOp[opList'[i]] # NoOp
               PROVE  \/ ParentOp[opList'[i]] \in handled
                      \/ \E k \in 1..(i - 1) : opList'[k] = ParentOp[opList'[i]]
    BY <1>2, <1>5 DEF ListOrdered
  <1>6. CASE i <= Len(order)
    <2>1. i \in DOMAIN order /\ opList'[i] = order[i]
      BY <1>5, <1>6
    <2>2. opList'[i] \in OngoingOps
      BY <1>4, <2>1 DEF Range
    <2>3. QED
      BY <2>2 DEF OrderInv, ParentOpFirst
  <1>7. CASE ~(i <= Len(order))
    <2>1. i - Len(order) \in DOMAIN opList /\ opList'[i] = opList[i - Len(order)]
      BY <1>5, <1>7
    <2>2. \/ ParentOp[opList'[i]] \in handled
          \/ \E k \in 1..((i - Len(order)) - 1) : opList[k] = ParentOp[opList'[i]]
      BY <2>1 DEF OrderInv, ListOrdered
    <2>3. ASSUME NEW k \in 1..((i - Len(order)) - 1)
          PROVE  k + Len(order) \in 1..(i - 1) /\ opList'[k + Len(order)] = opList[k]
      <3>1. /\ k + Len(order) \in 1..(i - 1) /\ k + Len(order) \in 1..Len(order) + Len(opList)
            /\ ~(k + Len(order) <= Len(order)) /\ (k + Len(order)) - Len(order) = k
        BY <1>5, <1>7
      <3>2. QED
        BY <1>5, <3>1
    <2>4. QED
      BY <2>2, <2>3
  <1>8. QED
    BY <1>6, <1>7

LEMMA OrderNext == OrderInv /\ [Next]_vars => OrderInv'
  <1> SUFFICES ASSUME OrderInv, [Next]_vars PROVE OrderInv'
    OBVIOUS
  <1>1. OnceInv /\ OnceInv' /\ AnswersInv
    BY OnceNext DEF OrderInv, OnceInv
  <1>2. CASE Leaves \/ Answers
    <2>1. handled \subseteq handled' /\ opList' = opList
      BY <1>2 DEF Leaves, Answers
    <2>2. ListOrdered'
      BY <2>1 DEF OrderInv, ListOrdered
    <2>3. handled' \cup OngoingOps' = handled \cup OngoingOps
      BY <1>1, <1>2, AnswersMove DEF Leaves, OngoingOps
    <2>4. ParentOpFirst'
      BY <2>1, <2>3 DEF OrderInv, ParentOpFirst
    <2>5. QED
      BY <1>1, <2>2, <2>4 DEF OrderInv
  <1>3. CASE PutsBack
    <2>1. handled' = handled /\ OngoingOps' = {}
      BY <1>3 DEF PutsBack, OngoingOps
    <2>2. ParentOpFirst'
      BY <2>1 DEF OrderInv, ParentOpFirst
    <2>3. QED
      BY <1>1, <1>3, <2>2, PutBackOrdered DEF OrderInv
  <1>4. CASE Creates \/ Executes
    <2>1. opList # <<>> /\ opList' = Tail(opList) /\ handled \subseteq handled'
      BY <1>4 DEF Creates, Executes
    <2>2. handled' \cup OngoingOps' = handled \cup OngoingOps \cup {Head(opList)}
      BY <1>1, <1>4, CreatesMove DEF Creates, Executes, OngoingOps
    <2>3. ParentOpFirst'
      BY <2>1, <2>2, HeadMayStart DEF OrderInv, ParentOpFirst
    <2>4. Head(opList) \in handled' \/ Head(opList) \in AsyncOps
      BY <1>4 DEF Creates, Executes
    <2>5. QED
      BY <1>1, <2>1, <2>3, <2>4, TailOrdered DEF OrderInv
  <1>5. CASE Clears
    <2>1. handled \subseteq handled' /\ handled' \subseteq handled \cup OngoingOps
      BY <1>5 DEF Clears
    <2>2. OngoingOps' = {} /\ DOMAIN opList' = {}
      BY <1>5 DEF Clears, OngoingOps
    <2>3. QED
      BY <1>1, <2>1, <2>2 DEF OrderInv, ListOrdered, ParentOpFirst
  <1>6. QED
    BY <1>1, <1>2, <1>3, <1>4, <1>5, Moves

\* The order of the sorter is kept whatever the pauses have put back in the list,
\* although no job is told to wait for another (manageJobDependencies).
THEOREM OperationsFollowTheirParent == Spec => []ParentOpFirst
  <1>1. OrderInv => ParentOpFirst
    BY DEF OrderInv
  <1>2. QED
    BY <1>1, OrderInit, OrderNext, PTL DEF Spec
=============================================================================
