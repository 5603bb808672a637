---------------------------- MODULE MCJobManager ----------------------------
(***************************************************************************)
(* A small instance of JobManager: two threads, two upload sessions of     *)
(* which one may run at a time, and a third job whose thread may fail to   *)
(* start. Any of them may be the parent of a later one.                    *)
(***************************************************************************)
EXTENDS JobManager

MCUploadSessions == {0, 1}
MCFailure == {2}
=============================================================================
