---------------------------- MODULE AuthSessions ----------------------------
(***************************************************************************)
(* Logins, second factors, sessions, changes and recoveries of passwords:  *)
(* packages/auth/src/auth-service.ts over its stores.                      *)
(*                                                                         *)
(* Every call of a store is awaited, on D1 as a request of its own, so a   *)
(* request of a client is a sequence of steps, one for each call that      *)
(* reads or writes, and others run between any two of them.  Field `at` of *)
(* a request names the call it does next.  A challenge, a recovery token   *)
(* and a session are random, so they are named after the request that made *)
(* them.  A hash is the password it was made of, and whether its cost is   *)
(* the old one.                                                            *)
(***************************************************************************)
EXTENDS Naturals, FiniteSets

CONSTANTS
    Users,
    Passwords,
    Requests,     \* what clients ask for, each once
    MaxAttempts,  \* MFA_MAX_ATTEMPTS
    None

ASSUME AttemptsAssumption == MaxAttempts \in Nat \ {0}
ASSUME NoneAssumption == None \notin Users \cup Passwords \cup Requests

VARIABLES
    backend,     \* the store that was configured: "sqlite" or "d1"
    users,       \* password_hash (its password, and whether its cost is old) and totp_secret
    challenges,  \* auth_mfa_challenges; `failed` outlives the row
    resets,      \* password_reset_requests
    sessions,    \* sessions, those that have not ended
    req          \* the requests in flight and their answers

vars == <<backend, users, challenges, resets, sessions, req>>

Records == [password : Passwords, legacy : BOOLEAN, totp : BOOLEAN]
Challenges == [open : BOOLEAN, failed : Nat]
Steps == {"new", "rehash", "challenge", "session", "factor", "failure", "consume",
          "discard", "mail", "mark", "store", "invalidate", "revoke", "done"}
Answers == {"none", "refused", "mfa", "session", "asked", "changed", "failed", "half"}

\* `late` is history: another password was stored while this login was under way,
\* or was put back when its session was open.
New == [at |-> "new", user |-> None, password |-> None, token |-> None,
        totp |-> FALSE, late |-> FALSE, answer |-> "none"]

Init ==
    /\ backend \in {"sqlite", "d1"}
    /\ users \in [Users -> Records]
    /\ challenges = [c \in Requests |-> [open |-> FALSE, failed |-> 0]]
    /\ resets = [t \in Requests |-> "none"]
    /\ sessions = {}
    /\ req = [r \in Requests |-> New]

Becomes(r, record) == req' = [req EXCEPT ![r] = record]
Goes(r, step) == req' = [req EXCEPT ![r].at = step]
Ends(r, answer) == req' = [req EXCEPT ![r].at = "done", ![r].answer = answer]

\* The request of a login once its user is known.
Admitted(login) == [login EXCEPT !.at = IF login.totp THEN "challenge" ELSE "session"]

LoginSteps == {"rehash", "challenge", "session", "factor", "failure", "consume"}

\* Logins of user u that have no session yet.
UnderWay(u) == {r \in Requests :
    /\ req[r].user = u
    /\ \/ req[r].at \in LoginSteps
       \/ challenges[r].open}

\* Request r goes on as `record` and has overtaken the requests in `others`.
Overtakes(r, record, others) ==
    req' = [x \in Requests |-> IF x = r THEN record
                               ELSE [req[x] EXCEPT !.late = @ \/ x \in others]]

----------------------------------------------------------------------------
(* login, loginWithOAuth, logout *)

\* Mutant of Login: every login stores the password again.
LoginAlwaysRehashes(r, u, p) ==
    LET login == [New EXCEPT !.user = u, !.password = p, !.totp = users[u].totp] IN
    /\ req[r].at = "new"
    /\ IF users[u].password # p THEN Ends(r, "refused")
       ELSE Becomes(r, [login EXCEPT !.at = "rehash"])
    /\ UNCHANGED <<users, challenges, resets, sessions>>

\* The record is read and the password verified against what was read.
Login(r, u, p) ==
    LET login == [New EXCEPT !.user = u, !.password = p, !.totp = users[u].totp] IN
    /\ req[r].at = "new"
    /\ IF users[u].password # p THEN Ends(r, "refused")
       ELSE Becomes(r, IF users[u].legacy THEN [login EXCEPT !.at = "rehash"] ELSE Admitted(login))
    /\ UNCHANGED <<users, challenges, resets, sessions>>

\* Mutant of Rehash: the session is opened at once, whatever the record said of a
\* second factor.
RehashForgetsFactor(r) ==
    LET u == req[r].user IN
    /\ req[r].at = "rehash"
    /\ users' = [users EXCEPT ![u].password = req[r].password, ![u].legacy = FALSE]
    /\ Overtakes(r, [req[r] EXCEPT !.at = "session"],
                 IF users[u].password = req[r].password THEN {}
                 ELSE UnderWay(u) \cup {s \in sessions : req[s].user = u})
    /\ UNCHANGED <<challenges, resets, sessions>>

\* The password that was verified is stored once more, at the present cost.
Rehash(r) ==
    LET u == req[r].user IN
    /\ req[r].at = "rehash"
    /\ users' = [users EXCEPT ![u].password = req[r].password, ![u].legacy = FALSE]
    /\ Overtakes(r, Admitted(req[r]),
                 IF users[u].password = req[r].password THEN {}
                 ELSE UnderWay(u) \cup {s \in sessions : req[s].user = u})
    /\ UNCHANGED <<challenges, resets, sessions>>

\* A profile that is already bound to account u.
OAuthLogin(r, u) ==
    /\ req[r].at = "new"
    /\ Becomes(r, Admitted([New EXCEPT !.user = u, !.totp = users[u].totp]))
    /\ UNCHANGED <<users, challenges, resets, sessions>>

IssueChallenge(r) ==
    /\ req[r].at = "challenge"
    /\ challenges' = [challenges EXCEPT ![r] = [open |-> TRUE, failed |-> 0]]
    /\ Ends(r, "mfa")
    /\ UNCHANGED <<users, resets, sessions>>

CreateSession(r) ==
    /\ req[r].at = "session"
    /\ sessions' = sessions \cup {r}
    /\ Ends(r, "session")
    /\ UNCHANGED <<users, challenges, resets>>

\* Logout, or the 24 hours of a session are over.
EndSession(s) ==
    /\ s \in sessions
    /\ sessions' = sessions \ {s}
    /\ UNCHANGED <<users, challenges, resets, req>>

----------------------------------------------------------------------------
(* completeMfaLogin *)

Spent(c) == challenges[c].failed >= MaxAttempts

BeginFactor(r, c) ==
    /\ req[r].at = "new"
    /\ req[c].answer = "mfa"
    /\ Becomes(r, [req[c] EXCEPT !.token = c, !.answer = "none",
                                 !.at = IF challenges[c].open /\ ~Spent(c) THEN "factor" ELSE "discard"])
    /\ UNCHANGED <<users, challenges, resets, sessions>>

\* The user is read again and the code is judged.
JudgeCode(r, right) ==
    /\ req[r].at = "factor"
    /\ Goes(r, IF ~users[req[r].user].totp THEN "discard" ELSE IF right THEN "consume" ELSE "failure")
    /\ UNCHANGED <<users, challenges, resets, sessions>>

\* recordFailure, an UPDATE ... RETURNING.
RecordFailure(r) ==
    LET c == req[r].token IN
    /\ req[r].at = "failure"
    /\ IF challenges[c].open
       THEN /\ challenges' = [challenges EXCEPT ![c].failed = @ + 1]
            /\ IF challenges[c].failed + 1 >= MaxAttempts THEN Goes(r, "discard") ELSE Ends(r, "refused")
       ELSE Ends(r, "refused") /\ UNCHANGED challenges
    /\ UNCHANGED <<users, resets, sessions>>

\* Mutant of Consume: the row is deleted and nobody looks whether there was one.
ConsumeUnchecked(r) ==
    /\ req[r].at = "consume"
    /\ challenges' = [challenges EXCEPT ![req[r].token].open = FALSE]
    /\ Goes(r, "session")
    /\ UNCHANGED <<users, resets, sessions>>

\* consume, a DELETE ... RETURNING with all its conditions.
Consume(r) ==
    LET c == req[r].token IN
    /\ req[r].at = "consume"
    /\ IF challenges[c].open /\ ~Spent(c)
       THEN /\ challenges' = [challenges EXCEPT ![c].open = FALSE]
            /\ Goes(r, "session")
       ELSE Ends(r, "refused") /\ UNCHANGED challenges
    /\ UNCHANGED <<users, resets, sessions>>

Discard(r) ==
    /\ req[r].at = "discard"
    /\ challenges' = [challenges EXCEPT ![req[r].token].open = FALSE]
    /\ Ends(r, "refused")
    /\ UNCHANGED <<users, resets, sessions>>

\* The five minutes of a challenge are over.
ExpireChallenge(c) ==
    /\ challenges[c].open
    /\ challenges' = [challenges EXCEPT ![c].open = FALSE]
    /\ UNCHANGED <<users, resets, sessions, req>>

\* confirmTotpEnrollment and disableTotp, one statement each.
SetTotp(r, u, totp) ==
    /\ req[r].at = "new"
    /\ users' = [users EXCEPT ![u].totp = totp]
    /\ Ends(r, "changed")
    /\ UNCHANGED <<challenges, resets, sessions>>

----------------------------------------------------------------------------
(* requestPasswordReset, completePasswordReset, changePassword *)

AskRecovery(r, u) ==
    /\ req[r].at = "new"
    /\ resets' = [resets EXCEPT ![r] = "open"]
    /\ Becomes(r, [New EXCEPT !.user = u, !.at = "mail"])
    /\ UNCHANGED <<users, challenges, sessions>>

\* The mail was sent, or may have been: the token is kept.
Mailed(r) ==
    /\ req[r].at = "mail"
    /\ Ends(r, "asked")
    /\ UNCHANGED <<users, challenges, resets, sessions>>

\* The mail was refused: the token is deleted.
NotMailed(r) ==
    /\ req[r].at = "mail"
    /\ resets' = [resets EXCEPT ![r] = "none"]
    /\ Ends(r, "asked")
    /\ UNCHANGED <<users, challenges, sessions>>

\* The 30 minutes of a recovery token are over.
ExpireReset(t) ==
    /\ resets[t] = "open"
    /\ resets' = [resets EXCEPT ![t] = "none"]
    /\ UNCHANGED <<users, challenges, sessions, req>>

\* Mutant of Recover: the token is read and stays open.
RecoverUnmarked(r, t, p) ==
    /\ req[r].at = "new"
    /\ resets[t] # "none" \/ req[t].answer = "asked"
    /\ IF resets[t] # "open" THEN Ends(r, "refused")
       ELSE Becomes(r, [New EXCEPT !.user = req[t].user, !.password = p, !.token = t, !.at = "store"])
    /\ UNCHANGED <<users, challenges, resets, sessions>>

\* The token is looked up; SQLite marks it used in the same breath, D1 in a
\* second request, which no longer looks whether it was used.
Recover(r, t, p) ==
    LET found == [New EXCEPT !.user = req[t].user, !.password = p, !.token = t] IN
    /\ req[r].at = "new"
    /\ resets[t] # "none" \/ req[t].answer = "asked"
    /\ IF resets[t] # "open" THEN Ends(r, "refused") /\ UNCHANGED resets
       ELSE IF backend = "d1" THEN Becomes(r, [found EXCEPT !.at = "mark"]) /\ UNCHANGED resets
       ELSE /\ resets' = [resets EXCEPT ![t] = "used"]
            /\ Becomes(r, [found EXCEPT !.at = "store"])
    /\ UNCHANGED <<users, challenges, sessions>>

MarkUsed(r) ==
    LET t == req[r].token IN
    /\ req[r].at = "mark"
    /\ resets' = IF resets[t] = "none" THEN resets ELSE [resets EXCEPT ![t] = "used"]
    /\ Goes(r, "store")
    /\ UNCHANGED <<users, challenges, sessions>>

\* verifyStepUp: the present password and, with a second factor, a code.
Change(r, u, current, right, p) ==
    /\ req[r].at = "new"
    /\ IF current = users[u].password /\ (users[u].totp => right)
       THEN Becomes(r, [New EXCEPT !.user = u, !.password = p, !.at = "store"])
       ELSE Ends(r, "refused")
    /\ UNCHANGED <<users, challenges, resets, sessions>>

StorePassword(r) ==
    LET u == req[r].user IN
    /\ req[r].at = "store"
    /\ users' = [users EXCEPT ![u].password = req[r].password, ![u].legacy = FALSE]
    /\ Overtakes(r, [req[r] EXCEPT !.at = "invalidate"], UnderWay(u))
    /\ UNCHANGED <<challenges, resets, sessions>>

\* Mutant of InvalidateResets: the sessions are left open.
InvalidateResetsLast(r) ==
    /\ req[r].at = "invalidate"
    /\ resets' = [t \in Requests |-> IF req[t].user = req[r].user THEN "none" ELSE resets[t]]
    /\ Ends(r, "changed")
    /\ UNCHANGED <<users, challenges, sessions>>

InvalidateResets(r) ==
    /\ req[r].at = "invalidate"
    /\ resets' = [t \in Requests |-> IF req[t].user = req[r].user THEN "none" ELSE resets[t]]
    /\ Goes(r, "revoke")
    /\ UNCHANGED <<users, challenges, sessions>>

RevokeSessions(r) ==
    /\ req[r].at = "revoke"
    /\ sessions' = {s \in sessions : req[s].user # req[r].user}
    /\ Ends(r, "changed")
    /\ UNCHANGED <<users, challenges, resets>>

\* A store fails, or the process stops: nothing that was written is undone.
Break(r) ==
    /\ req[r].at \notin {"new", "done"}
    /\ Ends(r, IF req[r].at \in {"invalidate", "revoke"} THEN "half" ELSE "failed")
    /\ UNCHANGED <<users, challenges, resets, sessions>>

----------------------------------------------------------------------------
Begin(r) ==
    \/ \E u \in Users :
        \/ OAuthLogin(r, u) \/ AskRecovery(r, u)
        \/ \E totp \in BOOLEAN : SetTotp(r, u, totp)
        \/ \E p \in Passwords : Login(r, u, p)
        \/ \E p, q \in Passwords, right \in BOOLEAN : Change(r, u, p, right, q)
    \/ \E x \in Requests : BeginFactor(r, x) \/ \E p \in Passwords : Recover(r, x, p)

Continue(r) ==
    \/ Rehash(r) \/ IssueChallenge(r) \/ CreateSession(r)
    \/ \E right \in BOOLEAN : JudgeCode(r, right)
    \/ RecordFailure(r) \/ Consume(r) \/ Discard(r)
    \/ Mailed(r) \/ NotMailed(r) \/ MarkUsed(r)
    \/ StorePassword(r) \/ InvalidateResets(r) \/ RevokeSessions(r)

Next ==
    /\ \E r \in Requests :
        Begin(r) \/ Continue(r) \/ Break(r) \/ EndSession(r) \/ ExpireChallenge(r) \/ ExpireReset(r)
    /\ UNCHANGED backend

----------------------------------------------------------------------------
(* Properties *)

\* Every row and request keeps its shape.
TypeOK ==
    /\ backend \in {"sqlite", "d1"}
    /\ users \in [Users -> Records]
    /\ challenges \in [Requests -> Challenges]
    /\ resets \in [Requests -> {"none", "open", "used"}]
    /\ sessions \subseteq Requests
    /\ req \in [Requests -> [at : Steps, user : Users \cup {None}, password : Passwords \cup {None},
                            token : Requests \cup {None}, totp : BOOLEAN, late : BOOLEAN,
                            answer : Answers]]

\* However many requests answer one challenge at once, at most one of them gets a
\* session, and none once MaxAttempts wrong codes were counted: get, recordFailure
\* and consume of completeMfaLogin are three awaits apart.
Passed(r, c) == req[r].token = c /\ (req[r].at = "session" \/ req[r].answer = "session")
ChallengesGiveOneSession ==
    \A c, r \in Requests : Passed(r, c) =>
        /\ ~challenges[c].open /\ ~Spent(c)
        /\ \A x \in Requests \ {r} : ~Passed(x, c)

\* Whoever was read to have a second factor gets a session only by answering a
\* challenge that was issued for the same account and the same password and that
\* nobody can answer again: the record is read once, by the login, and the session
\* is opened up to two requests and eight awaits later.
Granted(r) == req[r].at = "session" \/ req[r].answer = "session"
SecondFactorsArePassed ==
    \A r \in Requests : Granted(r) /\ req[r].totp =>
        \E c \in Requests :
            /\ Passed(r, c)
            /\ req[c].answer = "mfa" /\ ~challenges[c].open
            /\ req[c].user = req[r].user /\ req[c].password = req[r].password

\* With SQLite a recovery token changes a password at most once, even if two
\* confirmations of it arrive together.
Recovers(r, t) == /\ req[r].token = t
                  /\ \/ req[r].at \in {"store", "invalidate", "revoke"}
                     \/ req[r].answer \in {"changed", "half"}
UsedOnce(t) == \A r, x \in Requests : Recovers(r, t) /\ Recovers(x, t) => r = x
RecoveryTokensAreUsedOnce == backend = "sqlite" => \A t \in Requests : UsedOnce(t)

\* A session opened with a password that is no longer the stored one is of a login
\* that was under way when the new one was stored; all others are closed when
\* the change is answered, unless it fails half way.
StaleSessionsWereUnderWay ==
    \A s \in sessions :
        LET u == req[s].user IN
        \/ req[s].password \in {None, users[u].password}
        \/ req[s].late
        \/ \E r \in Requests : /\ req[r].user = u
                               /\ req[r].at \in {"invalidate", "revoke"} \/ req[r].answer = "half"

\* Once the hash of an account has the present cost and no login is about to
\* rehash it, this stays so and the password moves only by a change or a recovery.
Settled(u) == ~users[u].legacy /\ \A r \in Requests : req[r].at = "rehash" => req[r].user # u
SettledPasswordsStay ==
    [][\A u \in Users : Settled(u) =>
        /\ Settled(u)'
        /\ users'[u].password # users[u].password =>
            \E r \in Requests : req[r].at = "store" /\ req[r].user = u]_vars

\* A password moves only by a change or a recovery: to migrate a hash changes its
\* format alone.
RehashingKeepsThePassword ==
    [][\A u \in Users : users'[u].password # users[u].password =>
        \E r \in Requests : req[r].at = "store" /\ req[r].user = u]_vars

Spec == Init /\ [][Next]_vars

----------------------------------------------------------------------------
(* The inductive invariant *)

\* A request is what it was made with until it begins, is of a user until it ends,
\* has no answer before, and knows the password it is about to store.
RequestsAreBegun == \A r \in Requests :
    /\ req[r].at = "new" => req[r] = New
    /\ req[r].at \notin {"new", "done"} => req[r].user \in Users /\ req[r].answer = "none"
    /\ req[r].at = "rehash" => req[r].token = None
    /\ req[r].at \in {"rehash", "mark", "store"} => req[r].password \in Passwords
    /\ req[r].at = "mark" => backend = "d1"

\* Challenges, sessions and tokens are of requests that got past the step that
\* makes them, and are used by requests that came later.
TokensAreIssued == \A r \in Requests :
    /\ challenges[r].open \/ req[r].answer = "mfa" \/ r \in sessions =>
         req[r].at = "done" /\ req[r].user \in Users
    /\ resets[r] # "none" => req[r].at # "new" /\ req[r].user \in Users
    /\ req[r].at \in {"factor", "failure", "consume", "discard", "mark"} => req[r].token \in Requests
    /\ req[r].token \in Requests => req[req[r].token].at # "new"
    /\ \A c \in Requests : req[r].at \in {"factor", "failure", "consume"} \/ Passed(r, c) =>
         req[r].token \in Requests /\ req[req[r].token].answer = "mfa"
    /\ \A t \in Requests : backend = "sqlite" /\ Recovers(r, t) => resets[t] # "open"

\* A login under way was verified with the stored password, or is late.
LoginsAreFresh == \A r \in Requests :
    req[r].at \in LoginSteps \/ challenges[r].open =>
        req[r].late \/ req[r].password \in {None, users[req[r].user].password}

IInv ==
    /\ TypeOK /\ RequestsAreBegun /\ TokensAreIssued /\ LoginsAreFresh
    /\ ChallengesGiveOneSession
    /\ RecoveryTokensAreUsedOnce
    /\ StaleSessionsWereUnderWay

\* A request that answers a challenge goes on for the account and with the password
\* of the login that was asked for it, and no session skips the challenge.
FactorsAreCarried == \A r \in Requests :
    /\ Granted(r) /\ req[r].totp => req[r].token # None
    /\ Granted(r) \/ req[r].at \in {"factor", "failure", "consume"} =>
         \A c \in Requests : req[r].token = c =>
             req[c].user = req[r].user /\ req[c].password = req[r].password

FInv == IInv /\ FactorsAreCarried

=============================================================================
