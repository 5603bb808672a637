---------------------------- MODULE WorkerFlags ----------------------------
(***************************************************************************)
(* The flags of an ISyncWorker (syncpal/isyncworker.h) and the methods     *)
(* that test and set them (syncpal/isyncworker.cpp), as operators on a     *)
(* record. A worker is steered by another thread through Start, Pause,     *)
(* Unpause and Stop; its own thread answers through SetPauseDone,          *)
(* SetUnpauseDone and SetDone. None of the flags is atomic or protected by *)
(* a mutex: the modules that use these operators interleave the calls.     *)
(***************************************************************************)

Flags == [isRunning : BOOLEAN, stopAsked : BOOLEAN, pauseAsked : BOOLEAN,
          unpauseAsked : BOOLEAN, isPaused : BOOLEAN]

FreshWorker == [isRunning |-> FALSE, stopAsked |-> FALSE, pauseAsked |-> FALSE,
                unpauseAsked |-> FALSE, isPaused |-> FALSE]

\* Only the stop request is reset: a pause request of the last run survives.
Start(w) ==
    IF w.isRunning THEN w ELSE [w EXCEPT !.stopAsked = FALSE, !.isRunning = TRUE]

Pause(w) ==
    IF ~w.isRunning \/ w.isPaused \/ w.pauseAsked THEN w
    ELSE [w EXCEPT !.pauseAsked = TRUE, !.unpauseAsked = FALSE]

\* Ignored unless the worker has already reached its pause.
Unpause(w) ==
    IF ~w.isRunning \/ ~w.isPaused \/ w.unpauseAsked THEN w
    ELSE [w EXCEPT !.unpauseAsked = TRUE, !.pauseAsked = FALSE]

Stop(w) ==
    IF ~w.isRunning \/ w.stopAsked THEN w
    ELSE [w EXCEPT !.stopAsked = TRUE, !.pauseAsked = FALSE,
                   !.unpauseAsked = FALSE, !.isPaused = FALSE]

SetPauseDone(w) ==
    [w EXCEPT !.isPaused = TRUE, !.pauseAsked = FALSE, !.unpauseAsked = FALSE]

SetUnpauseDone(w) ==
    [w EXCEPT !.isPaused = FALSE, !.pauseAsked = FALSE, !.unpauseAsked = FALSE]

SetDone(w) == [w EXCEPT !.isRunning = FALSE, !.stopAsked = FALSE]

\* The condition of every pause loop.
MustPause(w) == w.pauseAsked \/ w.isPaused
=============================================================================
