------------------------- MODULE AccessTokensProofs -------------------------
(***************************************************************************)
(* What holds of the access token whatever the number of jobs, of their    *)
(* trials, of the failures and of the expiries.                            *)
(***************************************************************************)
EXTENDS AccessTokens, TLAPS

-----------------------------------------------------------------------------
\* Where a job goes it is at one of the places and knows what a job may know.
LEMMA GoType ==
    ASSUME TypeOK, NEW j \in Jobs, NEW place \in Places, NEW r \in JobStates, Go(j, place, r)
    PROVE  pc' \in [Jobs -> Places] /\ job' \in [Jobs -> JobStates]
  BY DEF Go, TypeOK, JobStates

\* The next trial keeps the types.
LEMMA TryAgainType ==
    ASSUME TypeOK, NEW j \in Jobs, NEW r \in JobStates, TryAgain(j, r)
    PROVE  pc' \in [Jobs -> Places] /\ job' \in [Jobs -> JobStates]
  <1>1. CASE Go(j, "send", [r EXCEPT !.trial = @ + 1])
    <2>1. [r EXCEPT !.trial = @ + 1] \in JobStates
      BY DEF JobStates
    <2> QED BY <1>1, <2>1, GoType DEF Places
  <1>2. CASE Go(j, "done", r)
    BY <1>2, GoType DEF Places
  <1> QED BY <1>1, <1>2 DEF TryAgain

\* What a job learns from an answer, and what it takes before the next trial.
LEMMA ExitType ==
    ASSUME NEW r \in JobStates, NEW e \in Exits
    PROVE  [r EXCEPT !.exit = e] \in JobStates
  BY DEF JobStates

LEMMA CauseType ==
    ASSUME NEW r \in JobStates, NEW e \in Exits, NEW c \in Causes
    PROVE  /\ [r EXCEPT !.cause = c] \in JobStates
           /\ [r EXCEPT !.exit = e, !.cause = c] \in JobStates
  BY DEF JobStates

LEMMA TokenType ==
    ASSUME NEW r \in JobStates, NEW t \in Nat, NEW b \in BOOLEAN
    PROVE  /\ [r EXCEPT !.token = t] \in JobStates
           /\ [r EXCEPT !.refreshed = b, !.token = t] \in JobStates
           /\ [r EXCEPT !.sent = t] \in JobStates
           /\ [r EXCEPT !.seen = t] \in JobStates
  BY DEF JobStates

LEMMA ChanceType ==
    ASSUME NEW r \in JobStates, NEW e \in Exits
    PROVE  [r EXCEPT !.exit = e, !.trials = @ + 1] \in JobStates
  <1> DEFINE more == r.trials + 1
  <1>1. more \in Nat
    BY DEF JobStates
  <1> HIDE DEF more
  <1>2. [r EXCEPT !.exit = e, !.trials = more] \in JobStates
    BY <1>1 DEF JobStates
  <1> QED BY <1>2 DEF more

\* The codes the jobs use are codes.
LEMMA Codes ==
    /\ {"Unknown", "Ok", "InvalidToken", "BackError", "SystemError"} = Exits
    /\ {"Unknown", "ApiErr", "HttpErr", "Maintenance", "LoginError"} = Causes
  BY DEF Exits, Causes

\* One more chance keeps the types.
LEMMA OneMoreChanceType ==
    ASSUME TypeOK, NEW j \in Jobs, NEW r \in JobStates, OneMoreChance(j, r)
    PROVE  pc' \in [Jobs -> Places] /\ job' \in [Jobs -> JobStates]
  <1>1. "Ok" \in Exits
    BY DEF Exits
  <1>2. [r EXCEPT !.exit = "Ok", !.trials = @ + 1] \in JobStates
    BY <1>1, ChanceType
  <1> QED BY <1>2, TryAgainType DEF OneMoreChance

\* And the end of the trials.
LEMMA NoRetryType ==
    ASSUME TypeOK, NEW j \in Jobs, NEW r \in JobStates, NoRetry(j, r)
    PROVE  pc' \in [Jobs -> Places] /\ job' \in [Jobs -> JobStates]
  <1>1. [r EXCEPT !.trials = 0] \in JobStates
    BY DEF JobStates
  <1> QED BY <1>1, GoType DEF NoRetry, Places

\* The types hold at the start.
LEMMA TypeInit == Init => TypeOK
  <1> SUFFICES ASSUME Init PROVE TypeOK
    OBVIOUS
  <1>1. pc \in [Jobs -> Places]
    BY DEF Init, Places
  <1>2. job \in [Jobs -> JobStates]
    BY AccessTokensAssumption DEF Init, JobStates, Exits, Causes
  <1>3. accepted \in BOOLEAN /\ aged \in BOOLEAN /\ connected \in BOOLEAN
    BY DEF Init
  <1>4. issued \in Nat /\ login \in Nat /\ updates \in Nat
    BY DEF Init
  <1>5. keychain \subseteq Nat /\ lock \subseteq Jobs
    BY DEF Init
  <1>6. expiries \in 0..MaxExpiries /\ faults \in 0..MaxFaults
    BY AccessTokensAssumption DEF Init
  <1> QED BY <1>1, <1>2, <1>3, <1>4, <1>5, <1>6 DEF TypeOK

\* What any action but those of the server and of a refresh leaves of the types.
SharedTypes ==
    /\ issued \in Nat /\ login \in Nat /\ updates \in Nat
    /\ accepted \in BOOLEAN /\ aged \in BOOLEAN /\ connected \in BOOLEAN
    /\ keychain \subseteq Nat
    /\ lock \subseteq Jobs
    /\ expiries \in 0..MaxExpiries /\ faults \in 0..MaxFaults

\* The types are those of the jobs and the others.
LEMMA TypeParts ==
    TypeOK <=> SharedTypes /\ pc \in [Jobs -> Places] /\ job \in [Jobs -> JobStates]
  BY DEF TypeOK, SharedTypes

\* Also after a step.
LEMMA TypePartsAfter ==
    ASSUME SharedTypes', pc' \in [Jobs -> Places], job' \in [Jobs -> JobStates]
    PROVE  TypeOK'
  BY DEF TypeOK, SharedTypes

\* A job that sends its request.
LEMMA SendType ==
    ASSUME TypeOK, NEW j \in Jobs, SendRequest(j)
    PROVE  TypeOK'
  <1> USE AccessTokensAssumption
  <1>0. SharedTypes /\ pc \in [Jobs -> Places] /\ job \in [Jobs -> JobStates] /\ job[j] \in JobStates
    BY TypeParts
  <1>s. SharedTypes'
    BY <1>0 DEF SendRequest, Create, Abort, Aborted, Answered, Unreachable, NotAuthorized,
                Unauthorized, ErrorAnswer, Fault, SharedTypes, serverVars, tokenVars
  <1>1. CASE Create(j)
    <2>1. [job[j] EXCEPT !.token = login] \in JobStates
      BY <1>0, TokenType DEF SharedTypes
    <2> QED BY <1>1, <1>s, <2>1, GoType, TypePartsAfter DEF Create, Places
  <1>2. CASE Abort(j)
    <2>1. job' \in [Jobs -> JobStates]
      BY <1>0, <1>2 DEF Abort, JobStates
    <2> QED BY <1>0, <1>2, <1>s, <2>1, TypePartsAfter DEF Abort
  <1>3. CASE Aborted(j)
    <2>1. PICK exit \in {"Ok", job[j].exit} : Go(j, "done", [job[j] EXCEPT !.exit = exit])
      BY <1>3 DEF Aborted
    <2>2. exit \in Exits
      BY <1>0, Codes DEF JobStates
    <2>3. [job[j] EXCEPT !.exit = exit] \in JobStates
      BY <1>0, <2>2, ExitType
    <2> QED BY <1>s, <2>1, <2>3, GoType, TypePartsAfter DEF Places
  <1>4. CASE Answered(j)
    <2>1. job[j].exit \in Exits /\ "Ok" \in Exits
      BY <1>0, Codes DEF JobStates
    <2> DEFINE e == IF IsManagedError(job[j]) THEN job[j].exit ELSE "Ok"
    <2>2. e \in Exits
      BY <2>1
    <2> HIDE DEF e
    <2>3. [job[j] EXCEPT !.answered = TRUE, !.exit = e] \in JobStates
      BY <1>0, <2>2 DEF JobStates
    <2>4. Go(j, "done", [job[j] EXCEPT !.answered = TRUE, !.exit = e])
      BY <1>4 DEF Answered, e
    <2> QED BY <1>s, <2>3, <2>4, GoType, TypePartsAfter DEF Places
  <1>5. CASE Unreachable(j)
    <2>1. [job[j] EXCEPT !.cause = "Unknown"] \in JobStates
      BY <1>0, Codes, CauseType
    <2> QED BY <1>5, <1>s, <2>1, TryAgainType, TypePartsAfter DEF Unreachable
  <1>6. CASE NotAuthorized(j)
    <2>1. [job[j] EXCEPT !.exit = "BackError"] \in JobStates
      BY <1>0, Codes, ExitType
    <2> DEFINE r == [job[j] EXCEPT !.exit = "BackError"]
    <2>2. [r EXCEPT !.cause = "Maintenance"] \in JobStates
      BY <2>1, Codes, CauseType
    <2>3. [r EXCEPT !.refreshed = TRUE, !.forbidden = TRUE] \in JobStates
      <3> HIDE DEF r
      <3> QED BY <2>1 DEF JobStates, r
    <2>4. \/ NoRetry(j, [r EXCEPT !.cause = "Maintenance"])
          \/ Go(j, "refresh", [r EXCEPT !.refreshed = TRUE, !.forbidden = TRUE])
      BY <1>6 DEF NotAuthorized
    <2> QED BY <1>s, <2>2, <2>3, <2>4, NoRetryType, GoType, TypePartsAfter DEF Places
  <1>7. CASE Unauthorized(j)
    <2>1. [job[j] EXCEPT !.exit = "InvalidToken"] \in JobStates
      BY <1>0, Codes, ExitType
    <2> QED BY <1>7, <1>s, <2>1, GoType, TypePartsAfter DEF Unauthorized, Places
  <1>8. ASSUME NEW c \in {"ApiErr", "HttpErr", "Maintenance"}, ErrorAnswer(j, c)
        PROVE  TypeOK'
    <2>1. c \in Causes /\ "BackError" \in Exits
      BY Codes
    <2>2. [job[j] EXCEPT !.exit = "BackError", !.cause = c] \in JobStates
      BY <1>0, <2>1, CauseType
    <2>3. \/ NoRetry(j, [job[j] EXCEPT !.exit = "BackError", !.cause = c])
          \/ TryAgain(j, [job[j] EXCEPT !.exit = "BackError", !.cause = c])
      BY <1>8 DEF ErrorAnswer
    <2> QED BY <1>s, <2>2, <2>3, NoRetryType, TryAgainType, TypePartsAfter
  <1> QED BY <1>1, <1>2, <1>3, <1>4, <1>5, <1>6, <1>7, <1>8 DEF SendRequest

\* A job whose token the server has refused.
LEMMA RefusedType ==
    ASSUME TypeOK, NEW j \in Jobs, HandleUnauthorized(j)
    PROVE  TypeOK'
  <1>0. SharedTypes /\ job[j] \in JobStates
    BY TypeParts
  <1>s. SharedTypes'
    BY <1>0 DEF HandleUnauthorized, TakeTheOther, StartRefresh, AlreadyRefreshed,
                SharedTypes, serverVars, tokenVars
  <1>1. CASE TakeTheOther(j)
    <2>1. [job[j] EXCEPT !.refreshed = FALSE, !.token = login] \in JobStates
      BY <1>0, TokenType DEF SharedTypes
    <2> QED BY <1>1, <1>s, <2>1, OneMoreChanceType, TypePartsAfter DEF TakeTheOther
  <1>2. CASE StartRefresh(j)
    <2>1. [job[j] EXCEPT !.refreshed = TRUE, !.forbidden = FALSE] \in JobStates
      BY <1>0 DEF JobStates
    <2> QED BY <1>2, <1>s, <2>1, GoType, TypePartsAfter DEF StartRefresh, Places
  <1>3. CASE AlreadyRefreshed(j)
    BY <1>0, <1>3, <1>s, TryAgainType, TypePartsAfter DEF AlreadyRefreshed
  <1> QED BY <1>1, <1>2, <1>3 DEF HandleUnauthorized

\* The failure of a refresh, and the use of a new token, by the job that knows r.
LEMMA RefreshOutcomeType ==
    ASSUME TypeOK, NEW j \in Jobs
    PROVE  /\ \A exit \in Exits : RefreshFails(j, exit) =>
                pc' \in [Jobs -> Places] /\ job' \in [Jobs -> JobStates]
           /\ \A token \in Nat : WithNewToken(j, token) =>
                pc' \in [Jobs -> Places] /\ job' \in [Jobs -> JobStates]
  <1>0. job[j] \in JobStates
    BY TypeParts
  <1>1. ASSUME NEW exit \in Exits, RefreshFails(j, exit)
        PROVE  pc' \in [Jobs -> Places] /\ job' \in [Jobs -> JobStates]
    <2>1. [job[j] EXCEPT !.exit = exit, !.cause = "LoginError"] \in JobStates
      BY <1>0, Codes, CauseType
    <2> QED BY <1>1, <2>1, GoType DEF RefreshFails, Places
  <1>2. ASSUME NEW token \in Nat, WithNewToken(j, token)
        PROVE  pc' \in [Jobs -> Places] /\ job' \in [Jobs -> JobStates]
    BY <1>0, <1>2, TokenType, OneMoreChanceType DEF WithNewToken
  <1> QED BY <1>1, <1>2

\* A job that refreshes the token.
LEMMA RefreshType ==
    ASSUME TypeOK, NEW j \in Jobs, RefreshToken(j)
    PROVE  TypeOK'
  <1>0. SharedTypes /\ pc \in [Jobs -> Places] /\ job \in [Jobs -> JobStates] /\ job[j] \in JobStates
    BY TypeParts
  <1>f. ASSUME Fault PROVE faults' \in 0..MaxFaults
    BY <1>0, <1>f, AccessTokensAssumption DEF Fault, SharedTypes
  <1> USE DEF serverVars, tokenVars
  <1>1. CASE ReadLastUpdate(j)
    <2>1. [job[j] EXCEPT !.seen = updates] \in JobStates
      BY <1>0, TokenType DEF SharedTypes
    <2>2. SharedTypes'
      BY <1>0, <1>1 DEF ReadLastUpdate, SharedTypes
    <2> QED BY <1>1, <2>1, <2>2, GoType, TypePartsAfter DEF ReadLastUpdate, Places
  <1>2. CASE RefreshedByAnother(j)
    <2>1. SharedTypes'
      BY <1>0, <1>2 DEF RefreshedByAnother, SharedTypes
    <2> QED BY <1>0, <1>2, <2>1, RefreshOutcomeType, TypePartsAfter DEF RefreshedByAnother, SharedTypes
  <1>3. CASE Request(j)
    <2>1. [job[j] EXCEPT !.sent = login] \in JobStates
      BY <1>0, TokenType DEF SharedTypes
    <2>2. SharedTypes'
      BY <1>0, <1>3 DEF Request, SharedTypes
    <2> QED BY <1>3, <2>1, <2>2, GoType, TypePartsAfter DEF Request, Places
  <1>4. CASE KeychainIsClosed(j)
    <2>1. SharedTypes'
      BY <1>0, <1>4, <1>f DEF KeychainIsClosed, SharedTypes
    <2> QED BY <1>4, <2>1, RefreshOutcomeType, Codes, TypePartsAfter DEF KeychainIsClosed
  <1>5. CASE Granted(j)
    <2>n. issued' \in Nat /\ login' \in Nat
      BY <1>0, <1>5 DEF Granted, SharedTypes
    <2>b. accepted' \in BOOLEAN /\ aged' \in BOOLEAN
      BY <1>0, <1>5 DEF Granted, SharedTypes
    <2>1. SharedTypes'
      BY <1>0, <1>5, <2>n, <2>b DEF Granted, SharedTypes
    <2>2. pc' \in [Jobs -> Places] /\ job' \in [Jobs -> JobStates]
      BY <1>0, <1>5 DEF Granted, Places
    <2> QED BY <2>1, <2>2, TypePartsAfter
  <1>6. CASE Store(j)
    <2>0. updates' \in Nat /\ keychain' \subseteq Nat
      BY <1>0, <1>6 DEF Store, SharedTypes
    <2>1. SharedTypes'
      BY <1>0, <1>6, <2>0 DEF Store, SharedTypes
    <2> QED BY <1>0, <1>6, <2>1, RefreshOutcomeType, TypePartsAfter DEF Store, SharedTypes
  <1>7. CASE StoreFails(j)
    <2>1. SharedTypes'
      BY <1>0, <1>7, <1>f DEF StoreFails, SharedTypes
    <2> QED BY <1>7, <2>1, RefreshOutcomeType, Codes, TypePartsAfter DEF StoreFails
  <1>8. CASE DeleteToken(j)
    <2>1. keychain' \subseteq Nat
      BY <1>0, <1>8 DEF DeleteToken, SharedTypes
    <2>2. SharedTypes'
      BY <1>0, <1>8, <2>1 DEF DeleteToken, SharedTypes
    <2>3. pc' \in [Jobs -> Places] /\ job' \in [Jobs -> JobStates]
      BY <1>0, <1>8 DEF DeleteToken, Places
    <2> QED BY <2>2, <2>3, TypePartsAfter
  <1>9. CASE ClearKey(j)
    <2>1. SharedTypes'
      BY <1>0, <1>9 DEF ClearKey, SharedTypes
    <2>2. [job[j] EXCEPT !.exit = "InvalidToken"] \in JobStates
      BY <1>0, Codes, ExitType
    <2> QED BY <1>0, <1>9, <2>1, <2>2, TryAgainType, NoRetryType, TypePartsAfter DEF ClearKey
  <1>10. ASSUME NEW exit \in {"Unknown", "InvalidToken"}, RefreshFailed(j, exit)
         PROVE  TypeOK'
    <2>1. SharedTypes'
      BY <1>0, <1>10, <1>f DEF RefreshFailed, SharedTypes
    <2>2. exit \in Exits
      BY Codes
    <2> QED BY <1>10, <2>1, <2>2, RefreshOutcomeType, TypePartsAfter DEF RefreshFailed
  <1> QED BY <1>1, <1>2, <1>3, <1>4, <1>5, <1>6, <1>7, <1>8, <1>9, <1>10 DEF RefreshToken

\* Every step keeps the types.
LEMMA TypeNext == TypeOK /\ [Next]_vars => TypeOK'
  <1> SUFFICES ASSUME TypeOK, [Next]_vars PROVE TypeOK'
    OBVIOUS
  <1>0. SharedTypes /\ pc \in [Jobs -> Places] /\ job \in [Jobs -> JobStates]
    BY TypeParts
  <1>1. CASE Expire \/ Revoke
    <2>0. expiries' \in 0..MaxExpiries /\ faults' \in 0..MaxFaults
      BY <1>0, <1>1, AccessTokensAssumption DEF Expire, Revoke, Fault, SharedTypes
    <2>1. SharedTypes'
      BY <1>0, <1>1, <2>0 DEF Expire, Revoke, SharedTypes, serverVars, tokenVars
    <2> QED BY <1>0, <1>1, <2>1, TypePartsAfter DEF Expire, Revoke
  <1>2. CASE UNCHANGED vars
    BY <1>2 DEF vars, serverVars, tokenVars, TypeOK
  <1> QED BY <1>1, <1>2, SendType, RefusedType, RefreshType DEF Next, Rest

\* The tokens, the places, the trials and the codes of the jobs keep their types, for
\* every set of jobs and every number of trials, expiries and failures.
THEOREM TypeCorrect == Spec => []TypeOK
  BY TypeInit, TypeNext, PTL DEF Spec

-----------------------------------------------------------------------------
\* Who refreshes the token holds the lock, alone; what it sends is the token of the
\* login, which is the last one; and the keychain has it, unless the user is
\* disconnected or a job is about to write, or to delete, it.
Holders == {"request", "store"}

TokenInv ==
    /\ login = issued
    /\ \A j \in Jobs : pc[j] \in Holders <=> lock = {j}
    /\ \A j \in Jobs : pc[j] = "request" => job[j].sent = login
    /\ keychain = {login} \/ ~connected \/ \E j \in Jobs : pc[j] \in InHand

\* A step of a job outside of the lock and of what follows a failed refresh.
Aside(j) ==
    /\ UNCHANGED <<issued, tokenVars, lock>>
    /\ \/ pc' = pc /\ \A i \in Jobs : job'[i].sent = job[i].sent
       \/ /\ pc[j] \notin Holders \cup InHand
          /\ \E p \in Places \ Holders : pc' = [pc EXCEPT ![j] = p]
          /\ \A i \in Jobs \ {j} : job'[i] = job[i]

\* Such a step leaves the token alone.
LEMMA AsideKeeps ==
    ASSUME TypeOK, TokenInv, NEW j \in Jobs, Aside(j)
    PROVE  TokenInv'
  <1>0. pc \in [Jobs -> Places]
    BY DEF TypeOK
  <1>1. CASE pc' = pc /\ \A i \in Jobs : job'[i].sent = job[i].sent
    BY <1>1 DEF Aside, TokenInv, tokenVars
  <1>2. ASSUME pc[j] \notin Holders \cup InHand,
               NEW p \in Places \ Holders, pc' = [pc EXCEPT ![j] = p],
               \A i \in Jobs \ {j} : job'[i] = job[i]
        PROVE  TokenInv'
    <2>1. pc'[j] = p /\ p \notin Holders /\ \A i \in Jobs \ {j} : pc'[i] = pc[i]
      BY <1>0, <1>2
    <2>2. login' = issued' /\ UNCHANGED <<login, lock, keychain, connected>>
      BY DEF Aside, TokenInv, tokenVars
    <2>3. \A i \in Jobs : pc'[i] \in Holders <=> lock' = {i}
      BY <1>2, <2>1, <2>2 DEF TokenInv
    <2>4. \A i \in Jobs : pc'[i] = "request" => job'[i].sent = login'
      BY <1>2, <2>1, <2>2 DEF TokenInv, Holders
    <2>5. keychain' = {login'} \/ ~connected' \/ \E i \in Jobs : pc'[i] \in InHand
      BY <1>2, <2>1, <2>2 DEF TokenInv
    <2> QED BY <2>2, <2>3, <2>4, <2>5 DEF TokenInv
  <1> QED BY <1>1, <1>2 DEF Aside

\* A job that goes to a place without the lock, from a place without it, is aside.
LEMMA GoAside ==
    ASSUME TypeOK, NEW j \in Jobs, UNCHANGED <<issued, tokenVars, lock>>,
           pc[j] \notin Holders \cup InHand, NEW p \in Places \ Holders, NEW r, Go(j, p, r)
    PROVE  Aside(j)
  BY DEF Go, Aside, TypeOK

\* So is one that tries again, ends its trials, or has one more chance.
LEMMA TrialAside ==
    ASSUME TypeOK, NEW j \in Jobs, UNCHANGED <<issued, tokenVars, lock>>,
           pc[j] \notin Holders \cup InHand, NEW r,
           TryAgain(j, r) \/ NoRetry(j, r) \/ OneMoreChance(j, r)
    PROVE  Aside(j)
  <1>1. {"send", "done"} \subseteq Places \ Holders
    BY DEF Places, Holders
  <1>2. PICK p \in {"send", "done"} : \E q : Go(j, p, q)
    BY DEF TryAgain, NoRetry, OneMoreChance
  <1> QED BY <1>1, <1>2, GoAside

\* The requests.
LEMMA SendAside ==
    ASSUME TypeOK, NEW j \in Jobs, SendRequest(j)
    PROVE  Aside(j)
  <1>p. {"send", "done", "refused", "refresh"} \subseteq Places \ Holders
    BY DEF Places, Holders
  <1>u. UNCHANGED <<issued, tokenVars, lock>>
    BY DEF SendRequest, Create, Abort, Aborted, Answered, Unreachable, NotAuthorized,
           Unauthorized, ErrorAnswer, serverVars
  <1>1. CASE Abort(j)
    <2>1. pc' = pc /\ job' = [job EXCEPT ![j].aborted = TRUE]
      BY <1>1 DEF Abort
    <2>2. \A i \in Jobs : job'[i].sent = job[i].sent
      BY <2>1 DEF TypeOK, JobStates
    <2> QED BY <1>u, <2>1, <2>2 DEF Aside
  <1>2. CASE ~Abort(j)
    <2>1. pc[j] \notin Holders \cup InHand
      BY <1>2 DEF SendRequest, Create, Aborted, Answered, Unreachable, NotAuthorized,
                  Unauthorized, ErrorAnswer, Holders, InHand
    <2>2. CASE Create(j) \/ Aborted(j) \/ Answered(j) \/ Unauthorized(j)
      <3>1. \E p \in {"send", "done", "refused"} : \E r : Go(j, p, r)
        BY <2>2 DEF Create, Aborted, Answered, Unauthorized
      <3> QED BY <1>p, <1>u, <2>1, <3>1, GoAside
    <2>3. CASE Unreachable(j)
      BY <1>u, <2>1, <2>3, TrialAside DEF Unreachable
    <2>4. CASE NotAuthorized(j)
      <3>1. \E r : NoRetry(j, r) \/ Go(j, "refresh", r)
        BY <2>4 DEF NotAuthorized
      <3> QED BY <1>p, <1>u, <2>1, <3>1, GoAside, TrialAside
    <2>5. ASSUME NEW c \in {"ApiErr", "HttpErr", "Maintenance"}, ErrorAnswer(j, c)
          PROVE  Aside(j)
      <3>1. \E r : NoRetry(j, r) \/ TryAgain(j, r)
        BY <2>5 DEF ErrorAnswer
      <3> QED BY <1>u, <2>1, <3>1, TrialAside
    <2> QED BY <1>2, <2>2, <2>3, <2>4, <2>5 DEF SendRequest
  <1> QED BY <1>1, <1>2

\* What follows a refusal, before the lock.
LEMMA RefusedAside ==
    ASSUME TypeOK, NEW j \in Jobs, HandleUnauthorized(j)
    PROVE  Aside(j)
  <1>1. UNCHANGED <<issued, tokenVars, lock>>
    BY DEF HandleUnauthorized, TakeTheOther, StartRefresh, AlreadyRefreshed, serverVars
  <1>2. pc[j] \notin Holders \cup InHand
    BY DEF HandleUnauthorized, TakeTheOther, StartRefresh, AlreadyRefreshed, Holders, InHand
  <1>3. "refresh" \in Places \ Holders
    BY DEF Places, Holders
  <1>4. \E r : Go(j, "refresh", r) \/ TryAgain(j, r) \/ OneMoreChance(j, r)
    BY DEF HandleUnauthorized, TakeTheOther, StartRefresh, AlreadyRefreshed
  <1> QED BY <1>1, <1>2, <1>3, <1>4, GoAside, TrialAside

\* The steps of a refresh before it sends its request, and without one.
LEMMA BeforeLockAside ==
    ASSUME TypeOK, NEW j \in Jobs,
           ReadLastUpdate(j) \/ RefreshedByAnother(j) \/ KeychainIsClosed(j)
    PROVE  Aside(j)
  <1>1. UNCHANGED <<issued, tokenVars, lock>>
    BY DEF ReadLastUpdate, RefreshedByAnother, KeychainIsClosed, serverVars
  <1>2. pc[j] \notin Holders \cup InHand
    BY DEF ReadLastUpdate, RefreshedByAnother, KeychainIsClosed, Holders, InHand
  <1>3. {"wait", "failed"} \subseteq Places \ Holders
    BY DEF Places, Holders
  <1>4. \E r : Go(j, "wait", r) \/ OneMoreChance(j, r) \/ Go(j, "failed", r)
    <2>1. CASE KeychainIsClosed(j)
      <3>1. Go(j, "failed", [job[j] EXCEPT !.exit = "SystemError", !.cause = "LoginError"])
        BY <2>1 DEF KeychainIsClosed, RefreshFails
      <3> QED BY <3>1
    <2> QED BY <2>1 DEF ReadLastUpdate, RefreshedByAnother, WithNewToken
  <1> QED BY <1>1, <1>2, <1>3, <1>4, GoAside, TrialAside

\* The token and the lock in the steps of a refresh.
LEMMA RefreshKeeps ==
    ASSUME TypeOK, TokenInv, NEW j \in Jobs, RefreshToken(j)
    PROVE  TokenInv'
  <1>0. /\ pc \in [Jobs -> Places] /\ job \in [Jobs -> JobStates]
        /\ login = issued /\ issued \in Nat
        /\ \A i \in Jobs : pc[i] \in Holders <=> lock = {i}
        /\ \A i \in Jobs : pc[i] = "request" => job[i].sent = login
        /\ keychain = {login} \/ ~connected \/ \E i \in Jobs : pc[i] \in InHand
    BY DEF TypeOK, TokenInv
  <1> USE DEF serverVars, tokenVars
  <1>1. CASE ReadLastUpdate(j) \/ RefreshedByAnother(j) \/ KeychainIsClosed(j)
    BY <1>1, BeforeLockAside, AsideKeeps
  <1>2. CASE Request(j)
    <2>1. /\ pc' = [pc EXCEPT ![j] = "request"]
          /\ job' = [job EXCEPT ![j] = [job[j] EXCEPT !.sent = login]]
          /\ lock = {} /\ lock' = {j} /\ pc[j] = "wait"
          /\ UNCHANGED <<login, issued, keychain, connected>>
      BY <1>2 DEF Request, Go, Unlocked
    <2>2. \A i \in Jobs : pc[i] \notin Holders
      BY <1>0, <2>1
    <2>3. \A i \in Jobs : pc'[i] \in Holders <=> lock' = {i}
      BY <1>0, <2>1, <2>2 DEF Holders
    <2>4. job'[j].sent = login
      BY <1>0, <2>1 DEF JobStates
    <2>5. \A i \in Jobs : pc'[i] = "request" => job'[i].sent = login'
      BY <1>0, <2>1, <2>2, <2>4 DEF Holders
    <2>6. keychain' = {login'} \/ ~connected' \/ \E i \in Jobs : pc'[i] \in InHand
      BY <1>0, <2>1 DEF InHand
    <2> QED BY <1>0, <2>1, <2>3, <2>5, <2>6 DEF TokenInv
  <1>3. CASE Granted(j)
    <2>1. /\ pc' = [pc EXCEPT ![j] = "store"] /\ pc[j] = "request"
          /\ login' = issued' /\ UNCHANGED <<lock, job>>
      BY <1>3 DEF Granted
    <2>2. lock = {j} /\ \A i \in Jobs : pc[i] \in Holders => i = j
      BY <1>0, <2>1 DEF Holders
    <2>3. \A i \in Jobs : pc'[i] \in Holders <=> lock' = {i}
      BY <1>0, <2>1, <2>2 DEF Holders
    <2>4. \A i \in Jobs : pc'[i] # "request"
      BY <1>0, <2>1, <2>2 DEF Holders
    <2>5. pc'[j] \in InHand
      BY <1>0, <2>1 DEF InHand
    <2> QED BY <2>1, <2>3, <2>4, <2>5 DEF TokenInv
  <1>4. ASSUME pc[j] \in Holders, lock' = {}, NEW p \in Places \ Holders,
               pc' = [pc EXCEPT ![j] = p], UNCHANGED <<login, issued, connected>>,
               keychain' = {login'} \/ (p \in InHand)
        PROVE  TokenInv'
    <2>1. \A i \in Jobs : pc[i] \in Holders => i = j
      BY <1>0, <1>4
    <2>2. \A i \in Jobs : pc'[i] \notin Holders
      BY <1>0, <1>4, <2>1
    <2>3. p \in InHand => pc'[j] \in InHand
      BY <1>0, <1>4
    <2> QED BY <1>0, <1>4, <2>2, <2>3 DEF TokenInv, Holders
  <1>5. CASE Store(j)
    <2>1. pc[j] \in Holders /\ {"send", "done"} \subseteq Places \ Holders
      BY <1>5 DEF Store, Holders, Places
    <2>2. \E p \in {"send", "done"} : pc' = [pc EXCEPT ![j] = p]
      BY <1>5 DEF Store, WithNewToken, OneMoreChance, TryAgain, Go
    <2>3. lock' = {} /\ UNCHANGED <<login, issued, connected>> /\ keychain' = {login'}
      BY <1>5 DEF Store
    <2> QED BY <1>4, <2>1, <2>2, <2>3
  <1>6. ASSUME StoreFails(j) \/ \E exit \in {"Unknown", "InvalidToken"} : RefreshFailed(j, exit)
        PROVE  TokenInv'
    <2>1. pc[j] \in Holders /\ "failed" \in Places \ Holders /\ "failed" \in InHand
      BY <1>6 DEF StoreFails, RefreshFailed, Holders, Places, InHand
    <2>2. pc' = [pc EXCEPT ![j] = "failed"]
      BY <1>6 DEF StoreFails, RefreshFailed, RefreshFails, Go
    <2>3. lock' = {} /\ UNCHANGED <<login, issued, connected>>
      BY <1>6 DEF StoreFails, RefreshFailed
    <2> QED BY <1>4, <2>1, <2>2, <2>3
  <1>7. ASSUME NEW p \in {"forget", "send", "done"}, pc[j] \in {"failed", "forget"},
               pc' = [pc EXCEPT ![j] = p], \A i \in Jobs \ {j} : job'[i] = job[i],
               UNCHANGED <<login, issued, lock>>,
               p = "forget" \/ ~connected'
        PROVE  TokenInv'
    <2>1. /\ pc'[j] \notin Holders /\ pc[j] \notin Holders
          /\ \A i \in Jobs \ {j} : pc'[i] = pc[i]
      BY <1>0, <1>7 DEF Holders
    <2>2. p = "forget" => pc'[j] \in InHand
      BY <1>0, <1>7 DEF InHand
    <2>3. \A i \in Jobs : pc'[i] \in Holders <=> lock' = {i}
      BY <1>0, <1>7, <2>1
    <2>4. \A i \in Jobs : pc'[i] = "request" => job'[i].sent = login'
      BY <1>0, <1>7, <2>1 DEF Holders
    <2> QED BY <1>0, <1>7, <2>2, <2>3, <2>4 DEF TokenInv
  <1>8. CASE DeleteToken(j)
    <2>1. /\ pc[j] = "failed" /\ pc' = [pc EXCEPT ![j] = "forget"]
          /\ UNCHANGED <<job, login, issued, lock>>
      BY <1>8 DEF DeleteToken
    <2> QED BY <1>7, <2>1
  <1>9. CASE ClearKey(j)
    <2>1. \E p \in {"send", "done"} : \E r : Go(j, p, r)
      BY <1>9 DEF ClearKey, TryAgain, NoRetry
    <2>2. /\ \E p \in {"send", "done"} : pc' = [pc EXCEPT ![j] = p]
          /\ \A i \in Jobs \ {j} : job'[i] = job[i]
      BY <1>0, <2>1 DEF Go
    <2>3. pc[j] = "forget" /\ ~connected' /\ UNCHANGED <<login, issued, lock>>
      BY <1>9 DEF ClearKey
    <2> QED BY <1>7, <2>2, <2>3
  <1> QED BY <1>1, <1>2, <1>3, <1>5, <1>6, <1>8, <1>9 DEF RefreshToken

\* Every step keeps the token invariant.
LEMMA TokenNext == TypeOK /\ TokenInv /\ [Next]_vars => TokenInv'
  <1> SUFFICES ASSUME TypeOK, TokenInv, [Next]_vars PROVE TokenInv'
    OBVIOUS
  <1>1. CASE Expire \/ Revoke \/ UNCHANGED vars
    BY <1>1 DEF Expire, Revoke, vars, serverVars, tokenVars, TokenInv
  <1> QED BY <1>1, SendAside, RefusedAside, AsideKeeps, RefreshKeeps DEF Next, Rest

\* The token invariant holds at the start.
LEMMA TokenInit == Init => TokenInv
  BY DEF Init, TokenInv, Holders

\* Both invariants hold for ever.
LEMMA TokensKept == Spec => [](TypeOK /\ TokenInv)
  <1>1. Init => TypeOK /\ TokenInv
    BY TypeInit, TokenInit
  <1>2. TypeOK /\ TokenInv /\ [Next]_vars => (TypeOK /\ TokenInv)'
    BY TypeNext, TokenNext
  <1> QED BY <1>1, <1>2, PTL DEF Spec

\* No refresh sends a token the server has replaced, for every number of jobs and
\* failures: the lock is held from the reading of the token to its replacement.
THEOREM NoTokenSentTwice == Spec => []RefreshTokenServesOnce
  <1>1. TokenInv => RefreshTokenServesOnce
    BY DEF TokenInv, RefreshTokenServesOnce
  <1> QED BY <1>1, TokensKept, PTL

\* Who is connected has the token in use in the keychain, whatever failed.
THEOREM KeychainIsCurrent == Spec => []StoredTokenIsCurrent
  <1>1. TokenInv => StoredTokenIsCurrent
    BY DEF TokenInv, StoredTokenIsCurrent
  <1> QED BY <1>1, TokensKept, PTL

-----------------------------------------------------------------------------
\* The end of the trials. Without a failure, a job that is not done has a trial left,
\* nobody aborts it, and it only ends with an answer or at the limit of the code.
TrialsFine(place, r) ==
    /\ place \notin {"failed", "forget"} /\ ~r.aborted
    /\ r.exit \in {"Unknown", "Ok", "InvalidToken"}
    /\ r.trial <= MaxTrials
    /\ place # "done" => r.trial <= r.trials
    /\ place = "done" => r.exit = "Ok" /\ (r.answered \/ r.trial = MaxTrials)

\* A job that has been refused the token of the login finds that the server does not
\* accept it any more; what a job has got and not yet stored is accepted.
TokenFine(place, r) ==
    /\ r.token <= login
    /\ place = "store" => accepted
    /\ place = "refused" /\ r.token = login => ~accepted

AnswerInv ==
    faults = 0 =>
        /\ accepted \/ aged
        /\ \A j \in Jobs : TrialsFine(pc[j], job[j]) /\ TokenFine(pc[j], job[j])

\* The new token does not expire before it is stored.
OutlivesTheStore == Expire => \A j \in Jobs : pc[j] # "store"

\* The smaller of the two numbers of trials.
LEMMA MinOfTwo ==
    ASSUME NEW a \in Nat, NEW b \in Nat
    PROVE  Min({a, b}) = IF a <= b THEN a ELSE b
  <1> DEFINE m == IF a <= b THEN a ELSE b
  <1>1. m \in {a, b} /\ \A y \in {a, b} : m <= y
    OBVIOUS
  <1>2. \A x \in {a, b} : (\A y \in {a, b} : x <= y) => x = m
    OBVIOUS
  <1> QED BY <1>1, <1>2 DEF Min

\* A failure is counted.
LEMMA FaultCounts == ASSUME TypeOK, Fault PROVE faults' # 0
  BY DEF Fault, TypeOK

\* A job with one more chance has a trial left, or has reached the limit.
LEMMA ChanceIsFine ==
    ASSUME NEW j \in Jobs, NEW r \in JobStates, OneMoreChance(j, r),
           ~r.aborted, r.trial <= MaxTrials, r.trial <= r.trials
    PROVE  \E place \in {"send", "done"} : \E q \in JobStates :
              Go(j, place, q) /\ TrialsFine(place, q) /\ q.token = r.token
  <1> DEFINE more == r.trials + 1
             q == [r EXCEPT !.exit = "Ok", !.trials = more]
  <1>1. q \in JobStates /\ "Ok" \in Exits
    BY ChanceType DEF Exits
  <1>2. more \in Nat /\ r.trial \in Nat /\ MaxTrials \in Nat
    BY AccessTokensAssumption DEF JobStates
  <1>3. r.trial < more
    BY <1>2 DEF JobStates
  <1> HIDE DEF more
  <1>4. /\ q.trial = r.trial /\ q.trials = more /\ q.exit = "Ok"
        /\ q.aborted = r.aborted /\ q.token = r.token /\ q.answered = r.answered
    BY <1>2 DEF JobStates
  <1>5. TryAgain(j, q)
    BY DEF OneMoreChance, more
  <1> HIDE DEF q
  <1>6. Min({q.trials, MaxTrials}) = IF more <= MaxTrials THEN more ELSE MaxTrials
    BY <1>2, <1>4, MinOfTwo
  <1>7. CASE q.trial < Min({q.trials, MaxTrials})
    <2> DEFINE next == [q EXCEPT !.trial = @ + 1]
    <2>1. Go(j, "send", next)
      BY <1>5, <1>7 DEF TryAgain
    <2>2. next \in JobStates /\ next.trial = r.trial + 1 /\ next.trials = more
          /\ next.exit = "Ok" /\ ~next.aborted /\ next.token = r.token
      BY <1>1, <1>2, <1>4 DEF JobStates
    <2> HIDE DEF next
    <2>3. next.trial <= MaxTrials /\ next.trial <= next.trials
      BY <1>2, <1>4, <1>6, <1>7, <2>2
    <2>4. TrialsFine("send", next)
      BY <2>2, <2>3 DEF TrialsFine
    <2> QED BY <2>1, <2>2, <2>4
  <1>8. CASE ~(q.trial < Min({q.trials, MaxTrials}))
    <2>1. Go(j, "done", q)
      BY <1>5, <1>8 DEF TryAgain
    <2>2. q.trial = MaxTrials
      BY <1>2, <1>3, <1>4, <1>6, <1>8
    <2>3. TrialsFine("done", q)
      BY <1>2, <1>4, <2>2 DEF TrialsFine
    <2> QED BY <1>1, <1>4, <2>1, <2>3
  <1> QED BY <1>7, <1>8

\* A step of one job that leaves the server and the login alone.
LEMMA StepIsFine ==
    ASSUME TypeOK, AnswerInv, faults = 0, UNCHANGED <<accepted, aged, login>>,
           NEW j \in Jobs, NEW place, NEW r, Go(j, place, r),
           TrialsFine(place, r), TokenFine(place, r)
    PROVE  AnswerInv'
  <1>1. pc' = [pc EXCEPT ![j] = place] /\ job' = [job EXCEPT ![j] = r]
    BY DEF Go
  <1>2. ASSUME NEW i \in Jobs
        PROVE  TrialsFine(pc'[i], job'[i]) /\ TokenFine(pc'[i], job'[i])
    BY <1>1 DEF TypeOK, AnswerInv
  <1>3. ASSUME NEW i \in Jobs
        PROVE  (TrialsFine(pc[i], job[i]) /\ TokenFine(pc[i], job[i]))'
    BY <1>2 DEF TrialsFine, TokenFine
  <1> QED BY <1>3 DEF AnswerInv

\* So is one more chance with the token of the login.
LEMMA ChanceKeeps ==
    ASSUME TypeOK, AnswerInv, faults = 0, UNCHANGED <<accepted, aged, login>>,
           NEW j \in Jobs, NEW r \in JobStates, OneMoreChance(j, r),
           ~r.aborted, r.trial <= MaxTrials, r.trial <= r.trials, r.token = login
    PROVE  AnswerInv'
  <1>1. PICK place \in {"send", "done"}, q \in JobStates :
           Go(j, place, q) /\ TrialsFine(place, q) /\ q.token = r.token
    BY ChanceIsFine
  <1>2. TokenFine(place, q)
    BY <1>1 DEF TokenFine, TypeOK
  <1> QED BY <1>1, <1>2, StepIsFine

\* The requests of a job that nothing fails.
LEMMA SendIsFine ==
    ASSUME TypeOK, TokenInv, AnswerInv, faults' = 0, NEW j \in Jobs, SendRequest(j)
    PROVE  AnswerInv'
  <1>0. /\ job[j] \in JobStates /\ login \in Nat /\ faults \in Nat /\ accepted \in BOOLEAN
        /\ job \in [Jobs -> JobStates] /\ login = issued
    BY DEF TypeOK, TokenInv
  <1>1. ~Fault
    BY FaultCounts
  <1>2. Create(j) \/ Aborted(j) \/ Answered(j) \/ Unauthorized(j)
    BY <1>1 DEF SendRequest, Abort, Unreachable, NotAuthorized, ErrorAnswer
  <1>3. faults = 0 /\ UNCHANGED <<accepted, aged, login>>
    BY <1>2 DEF Create, Aborted, Answered, Unauthorized, serverVars, tokenVars
  <1>4. TrialsFine(pc[j], job[j]) /\ TokenFine(pc[j], job[j])
    BY <1>3 DEF AnswerInv
  <1>5. CASE Create(j)
    <2> DEFINE r == [job[j] EXCEPT !.token = login]
    <2>1. Go(j, "send", r) /\ pc[j] = "new"
      BY <1>5 DEF Create
    <2>2. r.token = login /\ r.aborted = job[j].aborted /\ r.exit = job[j].exit
          /\ r.trial = job[j].trial /\ r.trials = job[j].trials
      BY <1>0 DEF JobStates
    <2> HIDE DEF r
    <2>3. TrialsFine("send", r) /\ TokenFine("send", r)
      BY <1>0, <1>4, <2>1, <2>2 DEF TrialsFine, TokenFine
    <2> QED BY <1>3, <2>1, <2>3, StepIsFine
  <1>6. CASE Aborted(j)
    BY <1>4, <1>6 DEF Aborted, TrialsFine
  <1>7. CASE Answered(j)
    <2> DEFINE r == [job[j] EXCEPT !.answered = TRUE, !.exit = "Ok"]
    <2>0. ~IsManagedError(job[j]) /\ pc[j] = "send"
      BY <1>4, <1>7 DEF IsManagedError, TrialsFine, Answered
    <2>1. Go(j, "done", r)
      <3>1. [job[j] EXCEPT !.answered = TRUE,
                           !.exit = IF IsManagedError(job[j]) THEN @ ELSE "Ok"] = r
        BY <1>0, <2>0 DEF JobStates
      <3> QED BY <1>7, <3>1 DEF Answered
    <2>2. r.answered /\ r.exit = "Ok" /\ r.token = job[j].token /\ r.aborted = job[j].aborted
          /\ r.trial = job[j].trial /\ r.trials = job[j].trials
      BY <1>0 DEF JobStates
    <2> HIDE DEF r
    <2>3. TrialsFine("done", r) /\ TokenFine("done", r)
      BY <1>0, <1>4, <2>0, <2>2 DEF TrialsFine, TokenFine
    <2> QED BY <1>3, <2>1, <2>3, StepIsFine
  <1>8. CASE Unauthorized(j)
    <2> DEFINE r == [job[j] EXCEPT !.exit = "InvalidToken"]
    <2>1. Go(j, "refused", r) /\ ~Authorised(j) /\ pc[j] = "send"
      BY <1>8 DEF Unauthorized
    <2>2. r.exit = "InvalidToken" /\ r.token = job[j].token /\ r.aborted = job[j].aborted
          /\ r.trial = job[j].trial /\ r.trials = job[j].trials
      BY <1>0 DEF JobStates
    <2> HIDE DEF r
    <2>3. r.token = login => ~accepted
      BY <1>0, <2>1, <2>2 DEF Authorised
    <2>4. TrialsFine("refused", r) /\ TokenFine("refused", r)
      BY <1>0, <1>4, <2>1, <2>2, <2>3 DEF TrialsFine, TokenFine
    <2> QED BY <1>3, <2>1, <2>4, StepIsFine
  <1> QED BY <1>2, <1>5, <1>6, <1>7, <1>8

\* What follows a refusal: another token is there, or this one is refreshed; a job
\* never gives up because it has already refreshed the token.
LEMMA RefusedIsFine ==
    ASSUME TypeOK, TokenInv, AnswerInv, faults' = 0, NEW j \in Jobs, HandleUnauthorized(j)
    PROVE  AnswerInv'
  <1>0. job[j] \in JobStates /\ login \in Nat
    BY DEF TypeOK
  <1>1. pc[j] = "refused" /\ faults = 0 /\ UNCHANGED <<accepted, aged, login>>
    BY DEF HandleUnauthorized, TakeTheOther, StartRefresh, AlreadyRefreshed,
           serverVars, tokenVars
  <1>2. TrialsFine(pc[j], job[j]) /\ TokenFine(pc[j], job[j]) /\ (accepted \/ aged)
    BY <1>1 DEF AnswerInv
  <1>3. CASE TakeTheOther(j)
    <2> DEFINE r == [job[j] EXCEPT !.refreshed = FALSE, !.token = login]
    <2>1. OneMoreChance(j, r)
      BY <1>3 DEF TakeTheOther
    <2>2. r.token = login /\ r.aborted = job[j].aborted
          /\ r.trial = job[j].trial /\ r.trials = job[j].trials
      BY <1>0 DEF JobStates
    <2>3. r \in JobStates
      BY <1>0, TokenType
    <2> HIDE DEF r
    <2>4. ~r.aborted /\ r.trial <= MaxTrials /\ r.trial <= r.trials
      BY <1>1, <1>2, <2>2 DEF TrialsFine
    <2> QED BY <1>1, <2>1, <2>2, <2>3, <2>4, ChanceKeeps
  <1>4. CASE StartRefresh(j)
    <2> DEFINE r == [job[j] EXCEPT !.refreshed = TRUE, !.forbidden = FALSE]
    <2>1. Go(j, "refresh", r)
      BY <1>4 DEF StartRefresh
    <2>2. r.token = job[j].token /\ r.aborted = job[j].aborted /\ r.exit = job[j].exit
          /\ r.trial = job[j].trial /\ r.trials = job[j].trials
      BY <1>0 DEF JobStates
    <2> HIDE DEF r
    <2>3. TrialsFine("refresh", r) /\ TokenFine("refresh", r)
      BY <1>1, <1>2, <2>2 DEF TrialsFine, TokenFine
    <2> QED BY <1>1, <2>1, <2>3, StepIsFine
  <1>5. CASE AlreadyRefreshed(j)
    BY <1>1, <1>2, <1>5 DEF AlreadyRefreshed, TokenFine
  <1> QED BY <1>3, <1>4, <1>5 DEF HandleUnauthorized

\* The refresh that nothing fails.
LEMMA RefreshIsFine ==
    ASSUME TypeOK, TokenInv, AnswerInv, faults' = 0, NEW j \in Jobs, RefreshToken(j)
    PROVE  AnswerInv'
  <1>0. /\ job[j] \in JobStates /\ login \in Nat /\ login = issued
        /\ pc \in [Jobs -> Places] /\ job \in [Jobs -> JobStates]
    BY DEF TypeOK, TokenInv
  <1>1. ~Fault
    BY FaultCounts
  <1>2. ~(\E exit \in {"Unknown", "InvalidToken"} : RefreshFailed(j, exit))
    BY <1>0, <1>1 DEF RefreshFailed, TokenInv
  <1>3. \/ ReadLastUpdate(j) \/ RefreshedByAnother(j) \/ Request(j)
        \/ Granted(j) \/ Store(j) \/ DeleteToken(j) \/ ClearKey(j)
    BY <1>1, <1>2 DEF RefreshToken, KeychainIsClosed, StoreFails
  <1>4. faults = 0
    BY <1>3 DEF ReadLastUpdate, RefreshedByAnother, Request, Granted, Store,
                DeleteToken, ClearKey
  <1>5. TrialsFine(pc[j], job[j]) /\ TokenFine(pc[j], job[j]) /\ (accepted \/ aged)
    BY <1>4 DEF AnswerInv
  <1>6. CASE ReadLastUpdate(j)
    <2> DEFINE r == [job[j] EXCEPT !.seen = updates]
    <2>1. Go(j, "wait", r) /\ pc[j] = "refresh" /\ UNCHANGED <<accepted, aged, login>>
      BY <1>6 DEF ReadLastUpdate, serverVars, tokenVars
    <2>2. r.token = job[j].token /\ r.aborted = job[j].aborted /\ r.exit = job[j].exit
          /\ r.trial = job[j].trial /\ r.trials = job[j].trials
      BY <1>0 DEF JobStates
    <2> HIDE DEF r
    <2>3. TrialsFine("wait", r) /\ TokenFine("wait", r)
      BY <1>5, <2>1, <2>2 DEF TrialsFine, TokenFine
    <2> QED BY <1>4, <2>1, <2>3, StepIsFine
  <1>7. CASE Request(j)
    <2> DEFINE r == [job[j] EXCEPT !.sent = login]
    <2>1. Go(j, "request", r) /\ pc[j] = "wait" /\ UNCHANGED <<accepted, aged, login>>
      BY <1>7 DEF Request, serverVars, tokenVars
    <2>2. r.token = job[j].token /\ r.aborted = job[j].aborted /\ r.exit = job[j].exit
          /\ r.trial = job[j].trial /\ r.trials = job[j].trials
      BY <1>0 DEF JobStates
    <2> HIDE DEF r
    <2>3. TrialsFine("request", r) /\ TokenFine("request", r)
      BY <1>5, <2>1, <2>2 DEF TrialsFine, TokenFine
    <2> QED BY <1>4, <2>1, <2>3, StepIsFine
  <1>8. CASE Granted(j)
    <2>1. /\ pc' = [pc EXCEPT ![j] = "store"] /\ job' = job /\ pc[j] = "request"
          /\ accepted' = TRUE /\ login' = login + 1
      BY <1>0, <1>8 DEF Granted
    <2>2. ASSUME NEW i \in Jobs PROVE (TrialsFine(pc[i], job[i]))'
      <3>1. TrialsFine(pc[i], job[i])
        BY <1>4 DEF AnswerInv
      <3> QED BY <1>0, <2>1, <3>1 DEF TrialsFine
    <2>3. ASSUME NEW i \in Jobs PROVE (TokenFine(pc[i], job[i]))'
      <3>1. job[i].token <= login /\ job[i].token \in Nat
        BY <1>0, <1>4 DEF AnswerInv, TokenFine, JobStates
      <3>2. job'[i].token < login'
        BY <1>0, <2>1, <3>1
      <3>3. job'[i].token <= login' /\ job'[i].token # login'
        BY <1>0, <2>1, <3>1, <3>2
      <3> QED BY <2>1, <3>3 DEF TokenFine
    <2> QED BY <2>1, <2>2, <2>3 DEF AnswerInv
  <1>9. CASE RefreshedByAnother(j)
    <2> DEFINE r == [job[j] EXCEPT !.token = login]
    <2>1. OneMoreChance(j, r) /\ pc[j] = "wait" /\ UNCHANGED <<accepted, aged, login>>
      BY <1>9 DEF RefreshedByAnother, WithNewToken, serverVars, tokenVars
    <2>2. r.token = login /\ r.aborted = job[j].aborted
          /\ r.trial = job[j].trial /\ r.trials = job[j].trials
      BY <1>0 DEF JobStates
    <2>3. r \in JobStates
      BY <1>0, TokenType
    <2> HIDE DEF r
    <2>4. ~r.aborted /\ r.trial <= MaxTrials /\ r.trial <= r.trials
      BY <1>5, <2>1, <2>2 DEF TrialsFine
    <2> QED BY <1>4, <2>1, <2>2, <2>3, <2>4, ChanceKeeps
  <1>10. CASE Store(j)
    <2> DEFINE r == [job[j] EXCEPT !.token = login]
    <2>1. /\ OneMoreChance(j, r) /\ pc[j] = "store" /\ UNCHANGED <<accepted, login>>
          /\ aged' = FALSE
      BY <1>10 DEF Store, WithNewToken
    <2>2. r.token = login /\ r.aborted = job[j].aborted
          /\ r.trial = job[j].trial /\ r.trials = job[j].trials
      BY <1>0 DEF JobStates
    <2>3. r \in JobStates
      BY <1>0, TokenType
    <2> HIDE DEF r
    <2>4. ~r.aborted /\ r.trial <= MaxTrials /\ r.trial <= r.trials
      BY <1>5, <2>1, <2>2 DEF TrialsFine
    <2>5. PICK place \in {"send", "done"}, q \in JobStates :
             Go(j, place, q) /\ TrialsFine(place, q) /\ q.token = r.token
      BY <2>1, <2>3, <2>4, ChanceIsFine
    <2>6. TokenFine(place, q)
      BY <1>0, <2>2, <2>5 DEF TokenFine
    <2>7. pc' = [pc EXCEPT ![j] = place] /\ job' = [job EXCEPT ![j] = q]
      BY <2>5 DEF Go
    <2>8. ASSUME NEW i \in Jobs
          PROVE  TrialsFine(pc'[i], job'[i]) /\ TokenFine(pc'[i], job'[i])
      BY <1>0, <1>4, <2>5, <2>6, <2>7 DEF AnswerInv
    <2>9. ASSUME NEW i \in Jobs
          PROVE  (TrialsFine(pc[i], job[i]) /\ TokenFine(pc[i], job[i]))'
      BY <2>1, <2>8 DEF TrialsFine, TokenFine
    <2>10. accepted'
      BY <1>5, <2>1 DEF TokenFine
    <2> QED BY <2>9, <2>10 DEF AnswerInv
  <1>11. CASE DeleteToken(j) \/ ClearKey(j)
    BY <1>5, <1>11 DEF DeleteToken, ClearKey, TrialsFine
  <1> QED BY <1>3, <1>6, <1>7, <1>8, <1>9, <1>10, <1>11

\* Every step keeps the answers, if no token expires before it is stored.
LEMMA AnswerNext ==
    TypeOK /\ TokenInv /\ AnswerInv /\ [Next]_vars /\ [OutlivesTheStore]_vars => AnswerInv'
  <1> SUFFICES ASSUME TypeOK, TokenInv, AnswerInv, [Next]_vars, [OutlivesTheStore]_vars
               PROVE  AnswerInv'
    OBVIOUS
  <1>1. SUFFICES ASSUME faults' = 0 PROVE AnswerInv'
    BY DEF AnswerInv
  <1>2. CASE UNCHANGED vars
    BY <1>2 DEF vars, serverVars, tokenVars, AnswerInv, TrialsFine, TokenFine
  <1>3. CASE Expire
    <2>1. /\ accepted /\ accepted' = FALSE /\ aged' = TRUE
          /\ UNCHANGED <<pc, job, login, faults>>
      BY <1>3 DEF Expire, tokenVars
    <2>2. \A j \in Jobs : pc[j] # "store"
      BY <1>3, <2>1 DEF OutlivesTheStore, vars, serverVars
    <2>3. ASSUME NEW i \in Jobs
          PROVE  (TrialsFine(pc[i], job[i]) /\ TokenFine(pc[i], job[i]))'
      BY <1>1, <2>1, <2>2 DEF AnswerInv, TrialsFine, TokenFine
    <2> QED BY <2>1, <2>3 DEF AnswerInv
  <1>4. CASE Revoke
    BY <1>1, <1>4, FaultCounts DEF Revoke
  <1> QED BY <1>1, <1>2, <1>3, <1>4, SendIsFine, RefusedIsFine, RefreshIsFine DEF Next, Rest

\* And they hold at the start.
LEMMA AnswerInit == Init => AnswerInv
  <1> SUFFICES ASSUME Init PROVE AnswerInv
    OBVIOUS
  <1>1. ASSUME NEW j \in Jobs
        PROVE  TrialsFine(pc[j], job[j]) /\ TokenFine(pc[j], job[j])
    BY AccessTokensAssumption DEF Init, TrialsFine, TokenFine
  <1> QED BY <1>1 DEF Init, AnswerInv

\* A job that only had to do with expired tokens is answered, or has made as many
\* trials as the code allows, however many jobs refresh the token, however often it
\* expires; but a token must not expire before it is stored, for then the code takes
\* it for a fresh one and the job gives up.
THEOREM JobsAreAnswered == Spec /\ [][OutlivesTheStore]_vars => []JobsEndAuthorised
  <1>1. Init => TypeOK /\ TokenInv /\ AnswerInv
    BY TypeInit, TokenInit, AnswerInit
  <1>2. TypeOK /\ TokenInv /\ AnswerInv /\ [Next]_vars /\ [OutlivesTheStore]_vars
           => (TypeOK /\ TokenInv /\ AnswerInv)'
    BY TypeNext, TokenNext, AnswerNext
  <1>3. AnswerInv => JobsEndAuthorised
    BY DEF AnswerInv, TrialsFine, JobsEndAuthorised
  <1> QED BY <1>1, <1>2, <1>3, PTL DEF Spec

=============================================================================
