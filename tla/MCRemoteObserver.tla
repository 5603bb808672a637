-------------------------- MODULE MCRemoteObserver --------------------------
(***************************************************************************)
(* The remote observer on small drives. "a" and "b" are directories, "f"   *)
(* and "u" are files.                                                      *)
(***************************************************************************)
EXTENDS RemoteObserver

\* A directory that is created, renamed and leaves, one that moves with what it
\* holds, goes to the trash and comes back, a file in it that is hidden from the
\* user and shown again, and one the executor uploads there. What moves leaves
\* only by the trash.
Trees == [a |-> "away", b |-> "root", f |-> "b", u |-> "away"]
Destinations == [a |-> {"root"}, b |-> {"root", "a"}, f |-> {"b"}, u |-> {"b"}]
Users == [a |-> {"create", "edit", "moveOut"}, b |-> {"move", "trash", "restore"},
          f |-> {"revoke", "grant"}, u |-> {}]

\* Two files the executor uploads, and nobody else.
NoTrees == [u |-> "away", v |-> "away"]
UnderRoot == [u |-> {"root"}, v |-> {"root"}]
Nobody == [u |-> {}, v |-> {}]
=============================================================================
