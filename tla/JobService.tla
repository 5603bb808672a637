----------------------------- MODULE JobService -----------------------------
(***************************************************************************)
(* What the users of the job manager rely on, without its thread, queues   *)
(* and locks: a job starts only when its parent job is over, and at most   *)
(* MaxSessions upload sessions run at a time. See JobManager, which        *)
(* implements it.                                                          *)
(***************************************************************************)
EXTENDS Integers, FiniteSets

CONSTANTS Jobs, Sessions, MaxSessions, NoParent

VARIABLES
    status,  \* "idle" -> "submitted" -> "running" -> "over", or "submitted" -> "over"
    parent   \* the job that must be over before this one starts, or NoParent

vars == <<status, parent>>

Init ==
    /\ status = [j \in Jobs |-> "idle"]
    /\ parent = [j \in Jobs |-> NoParent]

RunningSessions == {j \in Sessions : status[j] = "running"}

Submit(j, p) ==
    /\ status[j] = "idle"
    /\ p # NoParent => status[p] # "idle"
    /\ status' = [status EXCEPT ![j] = "submitted"]
    /\ parent' = [parent EXCEPT ![j] = p]

Start(j) ==
    /\ status[j] = "submitted"
    /\ parent[j] # NoParent => status[parent[j]] = "over"
    /\ j \in Sessions => Cardinality(RunningSessions) < MaxSessions
    /\ status' = [status EXCEPT ![j] = "running"]
    /\ UNCHANGED parent

Finish(j) ==
    /\ status[j] = "running"
    /\ status' = [status EXCEPT ![j] = "over"]
    /\ UNCHANGED parent

(* Jobs that never run: aborted by their owner, or impossible to start. *)
Discard(D) ==
    /\ \A j \in D : status[j] = "submitted"
    /\ status' = [j \in Jobs |-> IF j \in D THEN "over" ELSE status[j]]
    /\ UNCHANGED parent

Next ==
    \/ \E j \in Jobs, p \in Jobs \cup {NoParent} : Submit(j, p)
    \/ \E j \in Jobs : Start(j) \/ Finish(j)
    \/ \E D \in SUBSET Jobs : Discard(D)

Spec == Init /\ [][Next]_vars
=============================================================================
