----------------------------- MODULE MCExecutor -----------------------------
(***************************************************************************)
(* Three operations: the creation of a directory, then two files, one of   *)
(* which needs the directory. A pause gives each file a second job.        *)
(***************************************************************************)
EXTENDS Executor

FilesInDirectory == [o \in Ops |-> IF o = 2 THEN 1 ELSE NoOp]
=============================================================================
