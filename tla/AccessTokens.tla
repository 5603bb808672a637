---------------------------- MODULE AccessTokens ----------------------------
(***************************************************************************)
(* The requests of several jobs of one user, and the access token they     *)
(* share. A job sends its request until it is answered or has no trial     *)
(* left (jobs/network/abstractnetworkjob.cpp); when the server refuses its *)
(* token it takes the one another job has got meanwhile, or refreshes it   *)
(* (abstracttokennetworkjob.cpp, login.cpp). The token is in the cache of  *)
(* the user's login, which all jobs read without a lock, and in the        *)
(* keychain; the database says whether the user is connected.              *)
(*                                                                         *)
(* The server is external: it gives tokens, which are numbers; it accepts  *)
(* the last access token until it expires or is revoked, and the last      *)
(* refresh token once.                                                     *)
(***************************************************************************)
EXTENDS Integers, FiniteSets, FiniteSetsExt

CONSTANTS
    Jobs,
    TrialsOf(_),    \* _trials of a job
    MaxTrials,      \* MAX_TRIALS
    MaxExpiries,    \* bound on the times a token expires
    MaxFaults       \* bound on the failures, revocations and aborts

ASSUME AccessTokensAssumption ==
    /\ MaxTrials \in Nat \ {0} /\ MaxExpiries \in Nat /\ MaxFaults \in Nat
    /\ \A j \in Jobs : TrialsOf(j) \in Nat \ {0}

VARIABLES
    issued,     \* the last token the server has given
    accepted,   \* the server accepts its access token
    aged,       \* _lastTokenUpdateTime is more than TOKEN_LIFETIME ago
    login,      \* the token in the user cache, Login::_apiToken
    keychain,   \* the tokens in the keychain
    connected,  \* the database has a keychain key for the user
    lock,       \* who holds the mutex of the login
    updates,    \* _lastTokenUpdateTime
    pc,         \* where each job is
    job,        \* what it knows
    expiries, faults

serverVars == <<issued, accepted, aged, expiries>>
tokenVars == <<login, keychain, connected, updates>>
vars == <<serverVars, tokenVars, lock, pc, job, faults>>

Exits == {"Unknown", "Ok", "InvalidToken", "BackError", "SystemError"}
Causes == {"Unknown", "ApiErr", "HttpErr", "Maintenance", "LoginError"}
Places == {"new", "send", "refused", "refresh", "wait", "request", "store", "failed",
           "forget", "done"}

JobStates ==
    [token : Nat, sent : Nat, seen : Nat, trial : Nat, trials : Nat,
     refreshed : BOOLEAN, forbidden : BOOLEAN, aborted : BOOLEAN, answered : BOOLEAN,
     exit : Exits, cause : Causes]

Init ==
    /\ issued = 0 /\ accepted = TRUE /\ aged \in BOOLEAN
    /\ login = 0 /\ keychain = {0} /\ connected = TRUE
    /\ lock = {} /\ updates = 0
    /\ pc = [j \in Jobs |-> "new"]
    /\ job = [j \in Jobs |->
                [token |-> 0, sent |-> 0, seen |-> 0, trial |-> 1, trials |-> TrialsOf(j),
                 refreshed |-> FALSE, forbidden |-> FALSE, aborted |-> FALSE, answered |-> FALSE,
                 exit |-> "Unknown", cause |-> "Unknown"]]
    /\ expiries = 0 /\ faults = 0

Go(j, place, r) ==
    /\ pc' = [pc EXCEPT ![j] = place]
    /\ job' = [job EXCEPT ![j] = r]

Fault == faults < MaxFaults /\ faults' = faults + 1

-----------------------------------------------------------------------------
\* The server.
Expire ==
    /\ accepted /\ expiries < MaxExpiries
    /\ accepted' = FALSE /\ aged' = TRUE /\ expiries' = expiries + 1
    /\ UNCHANGED <<issued, tokenVars, lock, pc, job, faults>>

Revoke ==
    /\ accepted /\ Fault
    /\ accepted' = FALSE
    /\ UNCHANGED <<issued, aged, expiries, tokenVars, lock, pc, job>>

-----------------------------------------------------------------------------
\* runJob. The next trial, or the end of the loop.
TryAgain(j, r) ==
    IF r.trial < Min({r.trials, MaxTrials})
    THEN Go(j, "send", [r EXCEPT !.trial = @ + 1])
    ELSE Go(j, "done", r)

\* Mutant: the request is sent again, but not in addition to the other trials.
ChanceTakesATrial(j, r) == TryAgain(j, [r EXCEPT !.exit = "Ok"])

OneMoreChance(j, r) == TryAgain(j, [r EXCEPT !.exit = "Ok", !.trials = @ + 1])
NoRetry(j, r) == Go(j, "done", [r EXCEPT !.trials = 0])

\* loadToken: the user is in the cache.
Create(j) ==
    /\ pc[j] = "new"
    /\ Go(j, "send", [job[j] EXCEPT !.token = login])
    /\ UNCHANGED <<serverVars, tokenVars, lock, faults>>

\* AbstractNetworkJob::abort, by any other thread.
Abort(j) ==
    /\ pc[j] \notin {"new", "done"} /\ ~job[j].aborted /\ Fault
    /\ job' = [job EXCEPT ![j].aborted = TRUE]
    /\ UNCHANGED <<serverVars, tokenVars, lock, pc>>

\* The codes of an earlier trial are still there when a request is answered.
IsManagedError(r) == r.exit = "BackError" /\ r.cause = "ApiErr"
\* An aborted job: its request fails, or its answer is not looked at.
Aborted(j) ==
    /\ pc[j] = "send" /\ job[j].aborted
    /\ \E exit \in {"Ok"} \cup {e \in {job[j].exit} : IsManagedError(job[j])} :
          Go(j, "done", [job[j] EXCEPT !.exit = exit])
    /\ UNCHANGED <<serverVars, tokenVars, lock, faults>>

Authorised(j) == accepted /\ job[j].token = issued

Answered(j) ==
    /\ pc[j] = "send" /\ ~job[j].aborted /\ Authorised(j)
    /\ Go(j, "done", [job[j] EXCEPT !.answered = TRUE,
                                    !.exit = IF IsManagedError(job[j]) THEN @ ELSE "Ok"])
    /\ UNCHANGED <<serverVars, tokenVars, lock, faults>>

\* A socket error leaves the exit code as it is.
Unreachable(j) ==
    /\ pc[j] = "send" /\ ~job[j].aborted /\ Fault
    /\ TryAgain(j, [job[j] EXCEPT !.cause = "Unknown"])
    /\ UNCHANGED <<serverVars, tokenVars, lock>>

\* An error that handleError or handleResponse does not resolve.
ErrorAnswer(j, cause) ==
    /\ pc[j] = "send" /\ ~job[j].aborted /\ Fault
    /\ LET r == [job[j] EXCEPT !.exit = "BackError", !.cause = cause]
       IN  IF cause = "Maintenance" THEN NoRetry(j, r) ELSE TryAgain(j, r)
    /\ UNCHANGED <<serverVars, tokenVars, lock>>

\* notAuthorized: the token is refreshed once; the second time the code falls
\* into the case of a maintenance.
NotAuthorized(j) ==
    /\ pc[j] = "send" /\ ~job[j].aborted /\ Fault
    /\ LET r == [job[j] EXCEPT !.exit = "BackError"]
       IN  IF job[j].refreshed THEN NoRetry(j, [r EXCEPT !.cause = "Maintenance"])
           ELSE Go(j, "refresh", [r EXCEPT !.refreshed = TRUE, !.forbidden = TRUE])
    /\ UNCHANGED <<serverVars, tokenVars, lock>>

Unauthorized(j) ==
    /\ pc[j] = "send" /\ ~job[j].aborted /\ ~Authorised(j)
    /\ Go(j, "refused", [job[j] EXCEPT !.exit = "InvalidToken"])
    /\ UNCHANGED <<serverVars, tokenVars, lock, faults>>

-----------------------------------------------------------------------------
\* handleUnauthorizedResponse.
TakeTheOther(j) ==
    /\ pc[j] = "refused" /\ login # job[j].token
    /\ OneMoreChance(j, [job[j] EXCEPT !.refreshed = FALSE, !.token = login])
    /\ UNCHANGED <<serverVars, tokenVars, lock, faults>>

StartRefresh(j) ==
    /\ pc[j] = "refused" /\ login = job[j].token /\ (~job[j].refreshed \/ aged)
    /\ Go(j, "refresh", [job[j] EXCEPT !.refreshed = TRUE, !.forbidden = FALSE])
    /\ UNCHANGED <<serverVars, tokenVars, lock, faults>>

AlreadyRefreshed(j) ==
    /\ pc[j] = "refused" /\ login = job[j].token /\ job[j].refreshed /\ ~aged
    /\ TryAgain(j, job[j])
    /\ UNCHANGED <<serverVars, tokenVars, lock, faults>>

\* Login::refreshToken reads the time of the last update, then takes the mutex.
ReadLastUpdate(j) ==
    /\ pc[j] = "refresh"
    /\ Go(j, "wait", [job[j] EXCEPT !.seen = updates])
    /\ UNCHANGED <<serverVars, tokenVars, lock, faults>>

\* Mutant: the mutex is not taken.
NotLocked == TRUE

Unlocked == lock = {}

\* refreshToken returns true: the job takes the token and sends its request again.
WithNewToken(j, token) ==
    OneMoreChance(j, [job[j] EXCEPT !.token = token])

RefreshedByAnother(j) ==
    /\ pc[j] = "wait" /\ Unlocked /\ updates > job[j].seen
    /\ WithNewToken(j, login)
    /\ UNCHANGED <<serverVars, tokenVars, lock, faults>>

Request(j) ==
    /\ pc[j] = "wait" /\ Unlocked /\ updates <= job[j].seen
    /\ lock' = {j}
    /\ Go(j, "request", [job[j] EXCEPT !.sent = login])
    /\ UNCHANGED <<serverVars, tokenVars, faults>>

RefreshFails(j, exit) ==
    Go(j, "failed", [job[j] EXCEPT !.exit = exit, !.cause = "LoginError"])

\* writeDummyTest.
KeychainIsClosed(j) ==
    /\ pc[j] = "wait" /\ Unlocked /\ updates <= job[j].seen /\ Fault
    /\ RefreshFails(j, "SystemError")
    /\ UNCHANGED <<serverVars, tokenVars, lock>>

Granted(j) ==
    /\ pc[j] = "request" /\ job[j].sent = issued
    /\ issued' = issued + 1 /\ accepted' = TRUE
    /\ login' = issued + 1
    /\ pc' = [pc EXCEPT ![j] = "store"]
    /\ UNCHANGED <<aged, expiries, keychain, connected, updates, lock, job, faults>>

\* The server does not answer, or refuses: it refuses a token it has taken before.
RefreshFailed(j, exit) ==
    /\ pc[j] = "request"
    /\ IF job[j].sent = issued THEN Fault ELSE UNCHANGED faults
    /\ RefreshFails(j, exit) /\ lock' = {}
    /\ UNCHANGED <<serverVars, tokenVars>>

Store(j) ==
    /\ pc[j] = "store"
    /\ keychain' = {login} /\ updates' = updates + 1 /\ aged' = FALSE /\ lock' = {}
    /\ WithNewToken(j, login)
    /\ UNCHANGED <<issued, accepted, expiries, login, connected, faults>>

\* Mutant: a token that could not be stored is used as if it had been.
StoreFailsUnnoticed(j) ==
    /\ pc[j] = "store" /\ Fault
    /\ updates' = updates + 1 /\ aged' = FALSE /\ lock' = {}
    /\ WithNewToken(j, login)
    /\ UNCHANGED <<issued, accepted, expiries, login, keychain, connected>>

StoreFails(j) ==
    /\ pc[j] = "store" /\ Fault
    /\ RefreshFails(j, "SystemError") /\ lock' = {}
    /\ UNCHANGED <<serverVars, tokenVars>>

\* AbstractTokenNetworkJob::refreshToken after a failure: the token is deleted
\* from the keychain under the key of the database, then the key is cleared.
DeleteToken(j) ==
    /\ pc[j] = "failed"
    /\ keychain' = IF connected THEN {} ELSE keychain
    /\ pc' = [pc EXCEPT ![j] = "forget"]
    /\ UNCHANGED <<serverVars, login, connected, updates, lock, job, faults>>

ClearKey(j) ==
    /\ pc[j] = "forget"
    /\ connected' = FALSE
    /\ IF job[j].forbidden THEN TryAgain(j, [job[j] EXCEPT !.exit = "InvalidToken"])
       ELSE NoRetry(j, job[j])
    /\ UNCHANGED <<serverVars, login, keychain, updates, lock, faults>>

-----------------------------------------------------------------------------
SendRequest(j) ==
    \/ Create(j) \/ Abort(j) \/ Aborted(j) \/ Answered(j) \/ Unreachable(j)
    \/ NotAuthorized(j) \/ Unauthorized(j)
    \/ \E cause \in {"ApiErr", "HttpErr", "Maintenance"} : ErrorAnswer(j, cause)

HandleUnauthorized(j) == TakeTheOther(j) \/ StartRefresh(j) \/ AlreadyRefreshed(j)

RefreshToken(j) ==
    \/ ReadLastUpdate(j) \/ RefreshedByAnother(j) \/ Request(j) \/ KeychainIsClosed(j)
    \/ Granted(j) \/ Store(j) \/ StoreFails(j) \/ DeleteToken(j) \/ ClearKey(j)
    \/ \E exit \in {"Unknown", "InvalidToken"} : RefreshFailed(j, exit)

Rest == (\A j \in Jobs : pc[j] = "done") /\ UNCHANGED vars

Next ==
    \/ Expire \/ Revoke \/ Rest
    \/ \E j \in Jobs : SendRequest(j) \/ HandleUnauthorized(j) \/ RefreshToken(j)

Spec == Init /\ [][Next]_vars

-----------------------------------------------------------------------------
TypeOK ==
    /\ issued \in Nat /\ login \in Nat /\ updates \in Nat
    /\ accepted \in BOOLEAN /\ aged \in BOOLEAN /\ connected \in BOOLEAN
    /\ keychain \subseteq Nat
    /\ lock \subseteq Jobs
    /\ pc \in [Jobs -> Places]
    /\ job \in [Jobs -> JobStates]
    /\ expiries \in 0..MaxExpiries /\ faults \in 0..MaxFaults

\* No two refreshes race: the refresh token a request carries is the last one, which
\* the server takes once, whatever fails meanwhile (login.cpp).
RefreshTokenServesOnce == \A j \in Jobs : pc[j] = "request" => job[j].sent = issued

\* A job that only had to do with expired tokens is answered, however often the other
\* jobs refreshed the token under its hands: it has trials enough for that, unless it
\* has been refused MAX_TRIALS times (abstractnetworkjob.cpp).
JobsEndAuthorised ==
    faults = 0 => \A j \in Jobs : pc[j] = "done" =>
        job[j].exit = "Ok" /\ (job[j].answered \/ job[j].trial = MaxTrials)

\* Who is connected finds the token in use in the keychain at the next start, but
\* while a refresh, or what follows its failure, is under way (login.cpp,
\* abstracttokennetworkjob.cpp).
InHand == {"store", "failed", "forget"}
StoredTokenIsCurrent ==
    connected /\ (\A j \in Jobs : pc[j] \notin InHand) => keychain = {login}
=============================================================================
