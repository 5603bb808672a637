-------------------------- MODULE MCLocalObserver --------------------------
(***************************************************************************)
(* A folder with a file, and on the platforms that watch the whole folder  *)
(* a second file; a folder in a folder is outside, with a file.            *)
(***************************************************************************)
EXTENDS LocalObserver

Item(p, n, dir) == [parent |-> p, name |-> n, dir |-> dir, ver |-> 0]
OneFolder == (1 :> Item(Root, 1, TRUE)) @@ (2 :> Item(1, 1, FALSE))
AndAFile == OneFolder @@ (3 :> Item(Root, 2, FALSE))
Folder == (5 :> Item(None, 1, TRUE)) @@ (6 :> Item(5, 1, TRUE)) @@ (7 :> Item(6, 1, FALSE))
WholeStarts == {[platform |-> "whole", disk |-> AndAFile, outside |-> Folder]}
BothStarts == WholeStarts \cup {[platform |-> "inotify", disk |-> OneFolder, outside |-> <<>>]}

\* On Linux every folder is watched then, as long as none comes or moves and the
\* observer is not started again.
QuietUsers(p) == IF p = "whole" THEN {"files", "folders"} ELSE {"files"}
AnyFault(p) ==
    {"change", "executor"} \cup (IF p = "whole" THEN {"exploration"} ELSE {})

\* The users may also move folders while they are explored.
BusyUsers(p) == {"files", "folders", "during"}
NoFault(p) == {}
=============================================================================
