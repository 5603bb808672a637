-------------------------- MODULE MCUploadSession --------------------------
(***************************************************************************)
(* A file of four chunks sent by two parallel jobs: one chunk must wait.   *)
(***************************************************************************)
EXTENDS UploadSession
=============================================================================
