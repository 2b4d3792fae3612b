------------------------- MODULE AuthSessionsProofs -------------------------
(* Proofs about AuthSessions, for every value of its constants. *)
EXTENDS AuthSessions, TLAPS

\* The records of req.
Shapes == [at : Steps, user : Users \cup {None}, password : Passwords \cup {None},
           token : Requests \cup {None}, totp : BOOLEAN, late : BOOLEAN, answer : Answers]

\* What the steps below know of a request.
Is(n, at, user, password, token, late, answer) ==
    /\ n.at = at /\ n.user = user /\ n.password = password
    /\ n.token = token /\ n.late = late /\ n.answer = answer

\* A change that stored its password and has not ended the sessions yet.
Halved(x) == req[x].at \in {"invalidate", "revoke"} \/ req[x].answer = "half"

\* The records that requests are given are records of a request.
LEMMA NewShape == New \in Shapes /\ Is(New, "new", None, None, None, FALSE, "none")
  BY DEF New, Shapes, Steps, Answers, Is

LEMMA EndShape ==
    ASSUME TypeOK, NEW r \in Requests, NEW at \in Steps, NEW answer \in Answers, NEW n,
           n = [req[r] EXCEPT !.at = at, !.answer = answer]
    PROVE  n \in Shapes /\ Is(n, at, req[r].user, req[r].password, req[r].token, req[r].late, answer)
<1>1. req[r] \in Shapes BY DEF TypeOK, Shapes
<1>2. n \in Shapes BY <1>1 DEF Shapes
<1>3. n.at = at /\ n.user = req[r].user /\ n.password = req[r].password /\ n.token = req[r].token  /\ n.answer = answer
  BY <1>1 DEF Shapes
<1>4. n.late = req[r].late
  BY <1>1, Zenon DEF Shapes
<1>. QED BY <1>2, <1>3, <1>4 DEF Is

LEMMA GoShape ==
    ASSUME TypeOK, NEW r \in Requests, NEW at \in Steps, NEW n, n = [req[r] EXCEPT !.at = at]
    PROVE  n \in Shapes /\ Is(n, at, req[r].user, req[r].password, req[r].token, req[r].late, req[r].answer)
<1>1. req[r] \in Shapes BY DEF TypeOK, Shapes
<1>2. n \in Shapes BY <1>1 DEF Shapes
<1>3. n.at = at /\ n.user = req[r].user /\ n.password = req[r].password /\ n.token = req[r].token  /\ n.answer = req[r].answer
  BY <1>1 DEF Shapes
<1>4. n.late = req[r].late
  BY <1>1, Zenon DEF Shapes
<1>. QED BY <1>2, <1>3, <1>4 DEF Is

LEMMA FactorShape ==
    ASSUME TypeOK, NEW x \in Requests, NEW at \in Steps, NEW n, n = [req[x] EXCEPT !.token = x, !.answer = "none", !.at = at]
    PROVE  n \in Shapes /\ Is(n, at, req[x].user, req[x].password, x, req[x].late, "none")
<1>1. req[x] \in Shapes BY DEF TypeOK, Shapes
<1>2. n \in Shapes BY <1>1 DEF Shapes, Answers
<1>3. n.at = at /\ n.user = req[x].user /\ n.password = req[x].password /\ n.token = x  /\ n.answer = "none"
  BY <1>1 DEF Shapes
<1>4. n.late = req[x].late
  BY <1>1, Zenon DEF Shapes
<1>. QED BY <1>2, <1>3, <1>4 DEF Is


\* What is written into a challenge is a challenge.
LEMMA OpenShape ==
    ASSUME TypeOK, NEW c \in Requests, NEW B \in BOOLEAN, challenges' = [challenges EXCEPT ![c].open = B]
    PROVE  challenges' \in [Requests -> Challenges]
  BY DEF TypeOK, Challenges

LEMMA FailedShape ==
    ASSUME TypeOK, NEW c \in Requests, challenges' = [challenges EXCEPT ![c].failed = @ + 1]
    PROVE  challenges' \in [Requests -> Challenges]
  BY DEF TypeOK, Challenges

LEMMA LoginShape ==
    ASSUME NEW u \in Users, NEW p \in Passwords, NEW n,
           users \in [Users -> Records], n = [New EXCEPT !.user = u, !.password = p, !.totp = users[u].totp]
    PROVE  n \in Shapes
  BY NoneAssumption DEF Records, Shapes, New, Steps, Answers

\* Sessions may end, others go on, and nothing else that matters moves.
LEMMA StaleStays ==
    ASSUME TypeOK, StaleSessionsWereUnderWay, sessions' \subseteq sessions,
           \A u \in Users : users'[u].password = users[u].password,
           \A s \in sessions : /\ req[s].user \in Users /\ req'[s].user = req[s].user
                               /\ req'[s].password = req[s].password /\ req'[s].late = req[s].late,
           \A x \in Requests : Halved(x) => Halved(x)' /\ req'[x].user = req[x].user
    PROVE  StaleSessionsWereUnderWay'
<1>. SUFFICES ASSUME NEW s \in sessions', req'[s].password \notin {None, users'[req'[s].user].password}, ~req'[s].late
              PROVE  \E x \in Requests : req'[x].user = req'[s].user /\ Halved(x)'
  BY DEF StaleSessionsWereUnderWay, Halved
<1>1. \E x \in Requests : req[x].user = req[s].user /\ Halved(x)
  BY DEF StaleSessionsWereUnderWay, Halved
<1>. QED BY <1>1

----------------------------------------------------------------------------
(* Each action keeps the invariant *)

LEMMA LoginKeeps ==
    ASSUME IInv, NEW r \in Requests, NEW u \in Users, NEW p \in Passwords, Login(r, u, p), UNCHANGED backend
    PROVE  IInv'
<1>1. CASE users[u].password # p
<2>. DEFINE n == [req[r] EXCEPT !.at = "done", !.answer = "refused"]
<2>1. n \in Shapes /\ Is(n, "done", req[r].user, req[r].password, req[r].token, req[r].late, "refused")
  BY <1>1, EndShape DEF IInv, Steps, Answers
<2>2. req' = [req EXCEPT ![r] = n]
  BY <1>1, NewShape DEF IInv, TypeOK, Records, Challenges, Shapes, Login, Becomes, Goes, Ends,
       RequestsAreBegun
<2>. HIDE DEF n
<2>3. TypeOK'
  BY <1>1, <2>1, <2>2, NoneAssumption DEF IInv, TypeOK, Records, Challenges, Shapes, RequestsAreBegun, Login
<2>4. RequestsAreBegun'
  BY <1>1, <2>1, <2>2, <2>3, NoneAssumption, AttemptsAssumption
     DEF IInv, TypeOK, Records, Challenges, Shapes, Is, Spent, Login, RequestsAreBegun
<2>5. TokensAreIssued'
  BY <1>1, <2>1, <2>2, <2>3, NoneAssumption, AttemptsAssumption
     DEF IInv, TypeOK, Records, Challenges, Shapes, Is, Spent, Login, RequestsAreBegun, TokensAreIssued,
       Passed, Recovers, New
<2>6. LoginsAreFresh'
  BY <1>1, <2>1, <2>2, <2>3, NoneAssumption, AttemptsAssumption
     DEF IInv, TypeOK, Records, Challenges, Shapes, Is, Spent, Login, RequestsAreBegun, TokensAreIssued,
       LoginsAreFresh, LoginSteps
<2>7. ChallengesGiveOneSession'
  BY <1>1, <2>1, <2>2, <2>3, NoneAssumption, AttemptsAssumption
     DEF IInv, TypeOK, Records, Challenges, Shapes, Is, Spent, Login, RequestsAreBegun, TokensAreIssued,
       ChallengesGiveOneSession, Passed, New
<2>8. RecoveryTokensAreUsedOnce'
  BY <1>1, <2>1, <2>2, <2>3, NoneAssumption, AttemptsAssumption
     DEF IInv, TypeOK, Records, Challenges, Shapes, Is, Spent, Login, RequestsAreBegun, TokensAreIssued,
       RecoveryTokensAreUsedOnce, UsedOnce, Recovers, New
<2>9. StaleSessionsWereUnderWay'
  BY <1>1, <2>1, <2>2, StaleStays, NoneAssumption DEF IInv, TypeOK, Records, Challenges, Shapes, Is, Halved,
       RequestsAreBegun, TokensAreIssued, New, Login
<2>. QED BY <2>3, <2>4, <2>5, <2>6, <2>7, <2>8, <2>9 DEF IInv
<1>2. CASE users[u].password = p /\ users[u].legacy
<2>. DEFINE n == [[New EXCEPT !.user = u, !.password = p, !.totp = users[u].totp] EXCEPT !.at = "rehash"]
<2>1. n \in Shapes /\ Is(n, "rehash", u, p, None, FALSE, "none")
  <3>1. [New EXCEPT !.user = u, !.password = p, !.totp = users[u].totp] \in Shapes
    BY LoginShape DEF IInv, TypeOK
  <3>2. n \in Shapes
    BY <3>1 DEF Shapes, Steps
  <3>. QED BY <3>2, <3>1 DEF Is, New, Shapes
<2>2. req' = [req EXCEPT ![r] = n]
  BY <1>2, NewShape DEF IInv, TypeOK, Records, Challenges, Shapes, Login, Becomes, Goes, Ends,
       RequestsAreBegun
<2>. HIDE DEF n
<2>3. TypeOK'
  BY <1>2, <2>1, <2>2, NoneAssumption DEF IInv, TypeOK, Records, Challenges, Shapes, RequestsAreBegun, Login
<2>4. RequestsAreBegun'
  BY <1>2, <2>1, <2>2, <2>3, NoneAssumption, AttemptsAssumption
     DEF IInv, TypeOK, Records, Challenges, Shapes, Is, Spent, Login, RequestsAreBegun
<2>5. TokensAreIssued'
  BY <1>2, <2>1, <2>2, <2>3, NoneAssumption, AttemptsAssumption
     DEF IInv, TypeOK, Records, Challenges, Shapes, Is, Spent, Login, RequestsAreBegun, TokensAreIssued,
       Passed, Recovers, New
<2>6. LoginsAreFresh'
  BY <1>2, <2>1, <2>2, <2>3, NoneAssumption, AttemptsAssumption
     DEF IInv, TypeOK, Records, Challenges, Shapes, Is, Spent, Login, RequestsAreBegun, TokensAreIssued,
       LoginsAreFresh, LoginSteps
<2>7. ChallengesGiveOneSession'
  BY <1>2, <2>1, <2>2, <2>3, NoneAssumption, AttemptsAssumption
     DEF IInv, TypeOK, Records, Challenges, Shapes, Is, Spent, Login, RequestsAreBegun, TokensAreIssued,
       ChallengesGiveOneSession, Passed, New
<2>8. RecoveryTokensAreUsedOnce'
  BY <1>2, <2>1, <2>2, <2>3, NoneAssumption, AttemptsAssumption
     DEF IInv, TypeOK, Records, Challenges, Shapes, Is, Spent, Login, RequestsAreBegun, TokensAreIssued,
       RecoveryTokensAreUsedOnce, UsedOnce, Recovers, New
<2>9. StaleSessionsWereUnderWay'
  BY <1>2, <2>1, <2>2, StaleStays, NoneAssumption DEF IInv, TypeOK, Records, Challenges, Shapes, Is, Halved,
       RequestsAreBegun, TokensAreIssued, New, Login
<2>. QED BY <2>3, <2>4, <2>5, <2>6, <2>7, <2>8, <2>9 DEF IInv
<1>3. CASE users[u].password = p /\ ~users[u].legacy
<2>. DEFINE n == Admitted([New EXCEPT !.user = u, !.password = p, !.totp = users[u].totp])
<2>1. n \in Shapes /\ Is(n, IF users[u].totp THEN "challenge" ELSE "session", u, p, None, FALSE, "none")
  BY <1>3, NewShape, LoginShape, NoneAssumption DEF IInv, TypeOK, Records, Challenges, Shapes, Is, Admitted,
       Steps, Answers, RequestsAreBegun, TokensAreIssued, New, Login
<2>2. req' = [req EXCEPT ![r] = n]
  BY <1>3, NewShape DEF IInv, TypeOK, Records, Challenges, Shapes, Login, Becomes, Goes, Ends,
       RequestsAreBegun
<2>. HIDE DEF n
<2>3. TypeOK'
  BY <1>3, <2>1, <2>2, NoneAssumption DEF IInv, TypeOK, Records, Challenges, Shapes, RequestsAreBegun, Login
<2>4. RequestsAreBegun'
  BY <1>3, <2>1, <2>2, <2>3, NoneAssumption, AttemptsAssumption
     DEF IInv, TypeOK, Records, Challenges, Shapes, Is, Spent, Login, RequestsAreBegun
<2>5. TokensAreIssued'
  BY <1>3, <2>1, <2>2, <2>3, NoneAssumption, AttemptsAssumption
     DEF IInv, TypeOK, Records, Challenges, Shapes, Is, Spent, Login, RequestsAreBegun, TokensAreIssued,
       Passed, Recovers, New
<2>6. LoginsAreFresh'
  BY <1>3, <2>1, <2>2, <2>3, NoneAssumption, AttemptsAssumption
     DEF IInv, TypeOK, Records, Challenges, Shapes, Is, Spent, Login, RequestsAreBegun, TokensAreIssued,
       LoginsAreFresh, LoginSteps
<2>7. ChallengesGiveOneSession'
  BY <1>3, <2>1, <2>2, <2>3, NoneAssumption, AttemptsAssumption
     DEF IInv, TypeOK, Records, Challenges, Shapes, Is, Spent, Login, RequestsAreBegun, TokensAreIssued,
       ChallengesGiveOneSession, Passed, New
<2>8. RecoveryTokensAreUsedOnce'
  BY <1>3, <2>1, <2>2, <2>3, NoneAssumption, AttemptsAssumption
     DEF IInv, TypeOK, Records, Challenges, Shapes, Is, Spent, Login, RequestsAreBegun, TokensAreIssued,
       RecoveryTokensAreUsedOnce, UsedOnce, Recovers, New
<2>9. StaleSessionsWereUnderWay'
  BY <1>3, <2>1, <2>2, StaleStays, NoneAssumption DEF IInv, TypeOK, Records, Challenges, Shapes, Is, Halved,
       RequestsAreBegun, TokensAreIssued, New, Login
<2>. QED BY <2>3, <2>4, <2>5, <2>6, <2>7, <2>8, <2>9 DEF IInv
<1>. QED BY <1>1, <1>2, <1>3 DEF Login

LEMMA OAuthLoginKeeps ==
    ASSUME IInv, NEW r \in Requests, NEW u \in Users, OAuthLogin(r, u), UNCHANGED backend
    PROVE  IInv'
<1>. DEFINE n == Admitted([New EXCEPT !.user = u, !.totp = users[u].totp])
<1>1. n \in Shapes /\ Is(n, IF users[u].totp THEN "challenge" ELSE "session", u, None, None, FALSE, "none")
  BY NewShape, LoginShape, NoneAssumption DEF IInv, TypeOK, Records, Challenges, Shapes, Is, Admitted, Steps,
       Answers, RequestsAreBegun, TokensAreIssued, New, OAuthLogin
<1>2. req' = [req EXCEPT ![r] = n]
  BY NewShape DEF IInv, TypeOK, Records, Challenges, Shapes, OAuthLogin, Becomes, Goes, Ends, RequestsAreBegun
<1>. HIDE DEF n
<1>3. TypeOK'
  BY <1>1, <1>2, NoneAssumption DEF IInv, TypeOK, Records, Challenges, Shapes, RequestsAreBegun, OAuthLogin
<1>4. RequestsAreBegun'
  BY <1>1, <1>2, <1>3, NoneAssumption, AttemptsAssumption DEF IInv, TypeOK, Records, Challenges, Shapes, Is,
       Spent, OAuthLogin, RequestsAreBegun
<1>5. TokensAreIssued'
  BY <1>1, <1>2, <1>3, NoneAssumption, AttemptsAssumption DEF IInv, TypeOK, Records, Challenges, Shapes, Is,
       Spent, OAuthLogin, RequestsAreBegun, TokensAreIssued, Passed, Recovers, New
<1>6. LoginsAreFresh'
  BY <1>1, <1>2, <1>3, NoneAssumption, AttemptsAssumption DEF IInv, TypeOK, Records, Challenges, Shapes, Is,
       Spent, OAuthLogin, RequestsAreBegun, TokensAreIssued, LoginsAreFresh, LoginSteps
<1>7. ChallengesGiveOneSession'
  BY <1>1, <1>2, <1>3, NoneAssumption, AttemptsAssumption DEF IInv, TypeOK, Records, Challenges, Shapes, Is,
       Spent, OAuthLogin, RequestsAreBegun, TokensAreIssued, ChallengesGiveOneSession, Passed, New
<1>8. RecoveryTokensAreUsedOnce'
  BY <1>1, <1>2, <1>3, NoneAssumption, AttemptsAssumption DEF IInv, TypeOK, Records, Challenges, Shapes, Is,
       Spent, OAuthLogin, RequestsAreBegun, TokensAreIssued, RecoveryTokensAreUsedOnce, UsedOnce, Recovers,
       New
<1>9. StaleSessionsWereUnderWay'
  BY <1>1, <1>2, StaleStays, NoneAssumption DEF IInv, TypeOK, Records, Challenges, Shapes, Is, Halved,
       RequestsAreBegun, TokensAreIssued, New, OAuthLogin
<1>. QED BY <1>3, <1>4, <1>5, <1>6, <1>7, <1>8, <1>9 DEF IInv

LEMMA IssueChallengeKeeps ==
    ASSUME IInv, NEW r \in Requests, IssueChallenge(r), UNCHANGED backend
    PROVE  IInv'
<1>. DEFINE n == [req[r] EXCEPT !.at = "done", !.answer = "mfa"]
<1>1. n \in Shapes /\ Is(n, "done", req[r].user, req[r].password, req[r].token, req[r].late, "mfa")
  BY EndShape DEF IInv, Steps, Answers
<1>2. req' = [req EXCEPT ![r] = n]
  BY NewShape DEF IInv, TypeOK, Records, Challenges, Shapes, IssueChallenge, Becomes, Goes, Ends,
       RequestsAreBegun
<1>. HIDE DEF n
<1>3. TypeOK'
  BY <1>1, <1>2, NoneAssumption, OpenShape, FailedShape DEF IInv, TypeOK, Records, Challenges, Shapes,
       RequestsAreBegun, IssueChallenge
<1>4. RequestsAreBegun'
  BY <1>1, <1>2, <1>3, NoneAssumption, AttemptsAssumption DEF IInv, TypeOK, Records, Challenges, Shapes, Is,
       Spent, IssueChallenge, RequestsAreBegun
<1>5. TokensAreIssued'
  BY <1>1, <1>2, <1>3, NoneAssumption, AttemptsAssumption DEF IInv, TypeOK, Records, Challenges, Shapes, Is,
       Spent, IssueChallenge, RequestsAreBegun, TokensAreIssued, Passed, Recovers, New
<1>6. LoginsAreFresh'
  BY <1>1, <1>2, <1>3, NoneAssumption, AttemptsAssumption DEF IInv, TypeOK, Records, Challenges, Shapes, Is,
       Spent, IssueChallenge, RequestsAreBegun, TokensAreIssued, LoginsAreFresh, LoginSteps
<1>7. ChallengesGiveOneSession'
  BY <1>1, <1>2, <1>3, NoneAssumption, AttemptsAssumption DEF IInv, TypeOK, Records, Challenges, Shapes, Is,
       Spent, IssueChallenge, RequestsAreBegun, TokensAreIssued, ChallengesGiveOneSession, Passed, New
<1>8. RecoveryTokensAreUsedOnce'
  BY <1>1, <1>2, <1>3, NoneAssumption, AttemptsAssumption DEF IInv, TypeOK, Records, Challenges, Shapes, Is,
       Spent, IssueChallenge, RequestsAreBegun, TokensAreIssued, RecoveryTokensAreUsedOnce, UsedOnce,
       Recovers, New
<1>9. StaleSessionsWereUnderWay'
  BY <1>1, <1>2, StaleStays, NoneAssumption DEF IInv, TypeOK, Records, Challenges, Shapes, Is, Halved,
       RequestsAreBegun, TokensAreIssued, New, IssueChallenge
<1>. QED BY <1>3, <1>4, <1>5, <1>6, <1>7, <1>8, <1>9 DEF IInv

LEMMA CreateSessionKeeps ==
    ASSUME IInv, NEW r \in Requests, CreateSession(r), UNCHANGED backend
    PROVE  IInv'
<1>. DEFINE n == [req[r] EXCEPT !.at = "done", !.answer = "session"]
<1>1. n \in Shapes /\ Is(n, "done", req[r].user, req[r].password, req[r].token, req[r].late, "session")
  BY EndShape DEF IInv, Steps, Answers
<1>2. req' = [req EXCEPT ![r] = n]
  BY NewShape DEF IInv, TypeOK, Records, Challenges, Shapes, CreateSession, Becomes, Goes, Ends,
       RequestsAreBegun
<1>. HIDE DEF n
<1>3. TypeOK'
  BY <1>1, <1>2, NoneAssumption DEF IInv, TypeOK, Records, Challenges, Shapes, RequestsAreBegun, CreateSession
<1>4. RequestsAreBegun'
  BY <1>1, <1>2, <1>3, NoneAssumption, AttemptsAssumption DEF IInv, TypeOK, Records, Challenges, Shapes, Is,
       Spent, CreateSession, RequestsAreBegun
<1>5. TokensAreIssued'
  BY <1>1, <1>2, <1>3, NoneAssumption, AttemptsAssumption DEF IInv, TypeOK, Records, Challenges, Shapes, Is,
       Spent, CreateSession, RequestsAreBegun, TokensAreIssued, Passed, Recovers, New
<1>6. LoginsAreFresh'
  BY <1>1, <1>2, <1>3, NoneAssumption, AttemptsAssumption DEF IInv, TypeOK, Records, Challenges, Shapes, Is,
       Spent, CreateSession, RequestsAreBegun, TokensAreIssued, LoginsAreFresh, LoginSteps
<1>7. ChallengesGiveOneSession'
  BY <1>1, <1>2, <1>3, NoneAssumption, AttemptsAssumption DEF IInv, TypeOK, Records, Challenges, Shapes, Is,
       Spent, CreateSession, RequestsAreBegun, TokensAreIssued, ChallengesGiveOneSession, Passed, New
<1>8. RecoveryTokensAreUsedOnce'
  BY <1>1, <1>2, <1>3, NoneAssumption, AttemptsAssumption DEF IInv, TypeOK, Records, Challenges, Shapes, Is,
       Spent, CreateSession, RequestsAreBegun, TokensAreIssued, RecoveryTokensAreUsedOnce, UsedOnce, Recovers,
       New
<1>9. StaleSessionsWereUnderWay'
  <2>1. req[r].late \/ req[r].password \in {None, users[req[r].user].password}
    BY DEF IInv, LoginsAreFresh, LoginSteps, CreateSession
  <2>2. r \notin sessions
    BY DEF IInv, TokensAreIssued, CreateSession
  <2>. SUFFICES ASSUME NEW s \in sessions, req'[s].password \notin {None, users'[req'[s].user].password}, ~req'[s].late
                PROVE  \E x \in Requests : req'[x].user = req'[s].user /\ Halved(x)'
    BY <1>1, <1>2, <2>1 DEF IInv, TypeOK, Records, Challenges, Shapes, StaleSessionsWereUnderWay, Halved,
         CreateSession, Is
  <2>3. PICK x \in Requests : req[x].user = req[s].user /\ Halved(x)
    BY <1>1, <1>2, <2>2 DEF IInv, TypeOK, Records, Challenges, Shapes, StaleSessionsWereUnderWay, Halved,
         CreateSession, Is
  <2>4. x # r
    BY <2>3 DEF Halved, CreateSession, IInv, RequestsAreBegun
  <2>5. req'[x] = req[x] /\ req'[s] = req[s]
    BY <1>2, <2>2, <2>4 DEF IInv, TypeOK
  <2>. QED BY <2>3, <2>5 DEF Halved
<1>. QED BY <1>3, <1>4, <1>5, <1>6, <1>7, <1>8, <1>9 DEF IInv

LEMMA BeginFactorKeeps ==
    ASSUME IInv, NEW r \in Requests, NEW x \in Requests, BeginFactor(r, x), UNCHANGED backend
    PROVE  IInv'
<1>1. CASE challenges[x].open /\ ~Spent(x)
<2>. DEFINE n == [req[x] EXCEPT !.token = x, !.answer = "none", !.at = IF challenges[x].open /\ ~Spent(x) THEN "factor" ELSE "discard"]
<2>1. n \in Shapes /\ Is(n, "factor", req[x].user, req[x].password, x, req[x].late, "none")
  BY <1>1, FactorShape DEF IInv, Steps, Answers
<2>2. req' = [req EXCEPT ![r] = n]
  BY <1>1, NewShape DEF IInv, TypeOK, Records, Challenges, Shapes, BeginFactor, Becomes, Goes, Ends,
       RequestsAreBegun
<2>. HIDE DEF n
<2>3. TypeOK'
  BY <1>1, <2>1, <2>2, NoneAssumption DEF IInv, TypeOK, Records, Challenges, Shapes, RequestsAreBegun,
       BeginFactor
<2>4. RequestsAreBegun'
  BY <1>1, <2>1, <2>2, <2>3, NoneAssumption, AttemptsAssumption
     DEF IInv, TypeOK, Records, Challenges, Shapes, Is, Spent, BeginFactor, RequestsAreBegun, TokensAreIssued,
       Passed, Recovers
<2>5. TokensAreIssued'
  BY <1>1, <2>1, <2>2, <2>3, NoneAssumption, AttemptsAssumption
     DEF IInv, TypeOK, Records, Challenges, Shapes, Is, Spent, BeginFactor, RequestsAreBegun, TokensAreIssued,
       Passed, Recovers, New
<2>6. LoginsAreFresh'
  BY <1>1, <2>1, <2>2, <2>3, NoneAssumption, AttemptsAssumption
     DEF IInv, TypeOK, Records, Challenges, Shapes, Is, Spent, BeginFactor, RequestsAreBegun, TokensAreIssued,
       LoginsAreFresh, LoginSteps
<2>7. ChallengesGiveOneSession'
  BY <1>1, <2>1, <2>2, <2>3, NoneAssumption, AttemptsAssumption
     DEF IInv, TypeOK, Records, Challenges, Shapes, Is, Spent, BeginFactor, RequestsAreBegun, TokensAreIssued,
       ChallengesGiveOneSession, Passed, New
<2>8. RecoveryTokensAreUsedOnce'
  BY <1>1, <2>1, <2>2, <2>3, NoneAssumption, AttemptsAssumption
     DEF IInv, TypeOK, Records, Challenges, Shapes, Is, Spent, BeginFactor, RequestsAreBegun, TokensAreIssued,
       RecoveryTokensAreUsedOnce, UsedOnce, Recovers, New
<2>9. StaleSessionsWereUnderWay'
  BY <1>1, <2>1, <2>2, StaleStays, NoneAssumption DEF IInv, TypeOK, Records, Challenges, Shapes, Is, Halved,
       RequestsAreBegun, TokensAreIssued, New, BeginFactor
<2>. QED BY <2>3, <2>4, <2>5, <2>6, <2>7, <2>8, <2>9 DEF IInv
<1>2. CASE ~(challenges[x].open /\ ~Spent(x))
<2>. DEFINE n == [req[x] EXCEPT !.token = x, !.answer = "none", !.at = IF challenges[x].open /\ ~Spent(x) THEN "factor" ELSE "discard"]
<2>1. n \in Shapes /\ Is(n, "discard", req[x].user, req[x].password, x, req[x].late, "none")
  BY <1>2, FactorShape DEF IInv, Steps, Answers
<2>2. req' = [req EXCEPT ![r] = n]
  BY <1>2, NewShape DEF IInv, TypeOK, Records, Challenges, Shapes, BeginFactor, Becomes, Goes, Ends,
       RequestsAreBegun
<2>. HIDE DEF n
<2>3. TypeOK'
  BY <1>2, <2>1, <2>2, NoneAssumption DEF IInv, TypeOK, Records, Challenges, Shapes, RequestsAreBegun,
       BeginFactor
<2>4. RequestsAreBegun'
  BY <1>2, <2>1, <2>2, <2>3, NoneAssumption, AttemptsAssumption
     DEF IInv, TypeOK, Records, Challenges, Shapes, Is, Spent, BeginFactor, RequestsAreBegun, TokensAreIssued,
       Passed, Recovers
<2>5. TokensAreIssued'
  BY <1>2, <2>1, <2>2, <2>3, NoneAssumption, AttemptsAssumption
     DEF IInv, TypeOK, Records, Challenges, Shapes, Is, Spent, BeginFactor, RequestsAreBegun, TokensAreIssued,
       Passed, Recovers, New
<2>6. LoginsAreFresh'
  BY <1>2, <2>1, <2>2, <2>3, NoneAssumption, AttemptsAssumption
     DEF IInv, TypeOK, Records, Challenges, Shapes, Is, Spent, BeginFactor, RequestsAreBegun, TokensAreIssued,
       LoginsAreFresh, LoginSteps
<2>7. ChallengesGiveOneSession'
  BY <1>2, <2>1, <2>2, <2>3, NoneAssumption, AttemptsAssumption
     DEF IInv, TypeOK, Records, Challenges, Shapes, Is, Spent, BeginFactor, RequestsAreBegun, TokensAreIssued,
       ChallengesGiveOneSession, Passed, New
<2>8. RecoveryTokensAreUsedOnce'
  BY <1>2, <2>1, <2>2, <2>3, NoneAssumption, AttemptsAssumption
     DEF IInv, TypeOK, Records, Challenges, Shapes, Is, Spent, BeginFactor, RequestsAreBegun, TokensAreIssued,
       RecoveryTokensAreUsedOnce, UsedOnce, Recovers, New
<2>9. StaleSessionsWereUnderWay'
  BY <1>2, <2>1, <2>2, StaleStays, NoneAssumption DEF IInv, TypeOK, Records, Challenges, Shapes, Is, Halved,
       RequestsAreBegun, TokensAreIssued, New, BeginFactor
<2>. QED BY <2>3, <2>4, <2>5, <2>6, <2>7, <2>8, <2>9 DEF IInv
<1>. QED BY <1>1, <1>2 DEF BeginFactor

LEMMA JudgeCodeKeeps ==
    ASSUME IInv, NEW r \in Requests, NEW right \in BOOLEAN, JudgeCode(r, right), UNCHANGED backend
    PROVE  IInv'
<1>1. CASE ~users[req[r].user].totp
<2>. DEFINE n == [req[r] EXCEPT !.at = "discard"]
<2>1. n \in Shapes /\ Is(n, "discard", req[r].user, req[r].password, req[r].token, req[r].late, req[r].answer)
  BY <1>1, GoShape DEF IInv, Steps, Answers
<2>2. req' = [req EXCEPT ![r] = n]
  BY <1>1, NewShape DEF IInv, TypeOK, Records, Challenges, Shapes, JudgeCode, Becomes, Goes, Ends,
       RequestsAreBegun
<2>. HIDE DEF n
<2>3. TypeOK'
  BY <1>1, <2>1, <2>2, NoneAssumption DEF IInv, TypeOK, Records, Challenges, Shapes, RequestsAreBegun,
       JudgeCode
<2>4. RequestsAreBegun'
  BY <1>1, <2>1, <2>2, <2>3, NoneAssumption, AttemptsAssumption
     DEF IInv, TypeOK, Records, Challenges, Shapes, Is, Spent, JudgeCode, RequestsAreBegun
<2>5. TokensAreIssued'
  BY <1>1, <2>1, <2>2, <2>3, NoneAssumption, AttemptsAssumption
     DEF IInv, TypeOK, Records, Challenges, Shapes, Is, Spent, JudgeCode, RequestsAreBegun, TokensAreIssued,
       Passed, Recovers, New
<2>6. LoginsAreFresh'
  BY <1>1, <2>1, <2>2, <2>3, NoneAssumption, AttemptsAssumption
     DEF IInv, TypeOK, Records, Challenges, Shapes, Is, Spent, JudgeCode, RequestsAreBegun, TokensAreIssued,
       LoginsAreFresh, LoginSteps
<2>7. ChallengesGiveOneSession'
  BY <1>1, <2>1, <2>2, <2>3, NoneAssumption, AttemptsAssumption
     DEF IInv, TypeOK, Records, Challenges, Shapes, Is, Spent, JudgeCode, RequestsAreBegun, TokensAreIssued,
       ChallengesGiveOneSession, Passed, New
<2>8. RecoveryTokensAreUsedOnce'
  BY <1>1, <2>1, <2>2, <2>3, NoneAssumption, AttemptsAssumption
     DEF IInv, TypeOK, Records, Challenges, Shapes, Is, Spent, JudgeCode, RequestsAreBegun, TokensAreIssued,
       RecoveryTokensAreUsedOnce, UsedOnce, Recovers, New
<2>9. StaleSessionsWereUnderWay'
  BY <1>1, <2>1, <2>2, StaleStays, NoneAssumption DEF IInv, TypeOK, Records, Challenges, Shapes, Is, Halved,
       RequestsAreBegun, TokensAreIssued, New, JudgeCode
<2>. QED BY <2>3, <2>4, <2>5, <2>6, <2>7, <2>8, <2>9 DEF IInv
<1>2. CASE users[req[r].user].totp /\ right
<2>. DEFINE n == [req[r] EXCEPT !.at = "consume"]
<2>1. n \in Shapes /\ Is(n, "consume", req[r].user, req[r].password, req[r].token, req[r].late, req[r].answer)
  BY <1>2, GoShape DEF IInv, Steps, Answers
<2>2. req' = [req EXCEPT ![r] = n]
  BY <1>2, NewShape DEF IInv, TypeOK, Records, Challenges, Shapes, JudgeCode, Becomes, Goes, Ends,
       RequestsAreBegun
<2>. HIDE DEF n
<2>3. TypeOK'
  BY <1>2, <2>1, <2>2, NoneAssumption DEF IInv, TypeOK, Records, Challenges, Shapes, RequestsAreBegun,
       JudgeCode
<2>4. RequestsAreBegun'
  BY <1>2, <2>1, <2>2, <2>3, NoneAssumption, AttemptsAssumption
     DEF IInv, TypeOK, Records, Challenges, Shapes, Is, Spent, JudgeCode, RequestsAreBegun
<2>5. TokensAreIssued'
  BY <1>2, <2>1, <2>2, <2>3, NoneAssumption, AttemptsAssumption
     DEF IInv, TypeOK, Records, Challenges, Shapes, Is, Spent, JudgeCode, RequestsAreBegun, TokensAreIssued,
       Passed, Recovers, New
<2>6. LoginsAreFresh'
  BY <1>2, <2>1, <2>2, <2>3, NoneAssumption, AttemptsAssumption
     DEF IInv, TypeOK, Records, Challenges, Shapes, Is, Spent, JudgeCode, RequestsAreBegun, TokensAreIssued,
       LoginsAreFresh, LoginSteps
<2>7. ChallengesGiveOneSession'
  BY <1>2, <2>1, <2>2, <2>3, NoneAssumption, AttemptsAssumption
     DEF IInv, TypeOK, Records, Challenges, Shapes, Is, Spent, JudgeCode, RequestsAreBegun, TokensAreIssued,
       ChallengesGiveOneSession, Passed, New
<2>8. RecoveryTokensAreUsedOnce'
  BY <1>2, <2>1, <2>2, <2>3, NoneAssumption, AttemptsAssumption
     DEF IInv, TypeOK, Records, Challenges, Shapes, Is, Spent, JudgeCode, RequestsAreBegun, TokensAreIssued,
       RecoveryTokensAreUsedOnce, UsedOnce, Recovers, New
<2>9. StaleSessionsWereUnderWay'
  BY <1>2, <2>1, <2>2, StaleStays, NoneAssumption DEF IInv, TypeOK, Records, Challenges, Shapes, Is, Halved,
       RequestsAreBegun, TokensAreIssued, New, JudgeCode
<2>. QED BY <2>3, <2>4, <2>5, <2>6, <2>7, <2>8, <2>9 DEF IInv
<1>3. CASE users[req[r].user].totp /\ ~right
<2>. DEFINE n == [req[r] EXCEPT !.at = "failure"]
<2>1. n \in Shapes /\ Is(n, "failure", req[r].user, req[r].password, req[r].token, req[r].late, req[r].answer)
  BY <1>3, GoShape DEF IInv, Steps, Answers
<2>2. req' = [req EXCEPT ![r] = n]
  BY <1>3, NewShape DEF IInv, TypeOK, Records, Challenges, Shapes, JudgeCode, Becomes, Goes, Ends,
       RequestsAreBegun
<2>. HIDE DEF n
<2>3. TypeOK'
  BY <1>3, <2>1, <2>2, NoneAssumption DEF IInv, TypeOK, Records, Challenges, Shapes, RequestsAreBegun,
       JudgeCode
<2>4. RequestsAreBegun'
  BY <1>3, <2>1, <2>2, <2>3, NoneAssumption, AttemptsAssumption
     DEF IInv, TypeOK, Records, Challenges, Shapes, Is, Spent, JudgeCode, RequestsAreBegun
<2>5. TokensAreIssued'
  BY <1>3, <2>1, <2>2, <2>3, NoneAssumption, AttemptsAssumption
     DEF IInv, TypeOK, Records, Challenges, Shapes, Is, Spent, JudgeCode, RequestsAreBegun, TokensAreIssued,
       Passed, Recovers, New
<2>6. LoginsAreFresh'
  BY <1>3, <2>1, <2>2, <2>3, NoneAssumption, AttemptsAssumption
     DEF IInv, TypeOK, Records, Challenges, Shapes, Is, Spent, JudgeCode, RequestsAreBegun, TokensAreIssued,
       LoginsAreFresh, LoginSteps
<2>7. ChallengesGiveOneSession'
  BY <1>3, <2>1, <2>2, <2>3, NoneAssumption, AttemptsAssumption
     DEF IInv, TypeOK, Records, Challenges, Shapes, Is, Spent, JudgeCode, RequestsAreBegun, TokensAreIssued,
       ChallengesGiveOneSession, Passed, New
<2>8. RecoveryTokensAreUsedOnce'
  BY <1>3, <2>1, <2>2, <2>3, NoneAssumption, AttemptsAssumption
     DEF IInv, TypeOK, Records, Challenges, Shapes, Is, Spent, JudgeCode, RequestsAreBegun, TokensAreIssued,
       RecoveryTokensAreUsedOnce, UsedOnce, Recovers, New
<2>9. StaleSessionsWereUnderWay'
  BY <1>3, <2>1, <2>2, StaleStays, NoneAssumption DEF IInv, TypeOK, Records, Challenges, Shapes, Is, Halved,
       RequestsAreBegun, TokensAreIssued, New, JudgeCode
<2>. QED BY <2>3, <2>4, <2>5, <2>6, <2>7, <2>8, <2>9 DEF IInv
<1>. QED BY <1>1, <1>2, <1>3 DEF JudgeCode

LEMMA RecordFailureKeeps ==
    ASSUME IInv, NEW r \in Requests, RecordFailure(r), UNCHANGED backend
    PROVE  IInv'
<1>0. req[r].token \in Requests
  BY DEF IInv, TypeOK, Records, Challenges, Shapes, RequestsAreBegun, TokensAreIssued, RecordFailure
<1>1. CASE ~challenges[req[r].token].open
<2>. DEFINE n == [req[r] EXCEPT !.at = "done", !.answer = "refused"]
<2>1. n \in Shapes /\ Is(n, "done", req[r].user, req[r].password, req[r].token, req[r].late, "refused")
  BY <1>0, <1>1, EndShape DEF IInv, Steps, Answers
<2>2. req' = [req EXCEPT ![r] = n]
  BY <1>0, <1>1, NewShape DEF IInv, TypeOK, Records, Challenges, Shapes, RecordFailure, Becomes, Goes, Ends,
       RequestsAreBegun
<2>. HIDE DEF n
<2>3. TypeOK'
  BY <1>0, <1>1, <2>1, <2>2, NoneAssumption, OpenShape, FailedShape
     DEF IInv, TypeOK, Records, Challenges, Shapes, RequestsAreBegun, RecordFailure
<2>4. RequestsAreBegun'
  BY <1>0, <1>1, <2>1, <2>2, <2>3, NoneAssumption, AttemptsAssumption
     DEF IInv, TypeOK, Records, Challenges, Shapes, Is, Spent, RecordFailure, RequestsAreBegun
<2>5. TokensAreIssued'
  BY <1>0, <1>1, <2>1, <2>2, <2>3, NoneAssumption, AttemptsAssumption
     DEF IInv, TypeOK, Records, Challenges, Shapes, Is, Spent, RecordFailure, RequestsAreBegun,
       TokensAreIssued, Passed, Recovers, New
<2>6. LoginsAreFresh'
  BY <1>0, <1>1, <2>1, <2>2, <2>3, NoneAssumption, AttemptsAssumption
     DEF IInv, TypeOK, Records, Challenges, Shapes, Is, Spent, RecordFailure, RequestsAreBegun,
       TokensAreIssued, LoginsAreFresh, LoginSteps
<2>7. ChallengesGiveOneSession'
  BY <1>0, <1>1, <2>1, <2>2, <2>3, NoneAssumption, AttemptsAssumption
     DEF IInv, TypeOK, Records, Challenges, Shapes, Is, Spent, RecordFailure, RequestsAreBegun,
       TokensAreIssued, ChallengesGiveOneSession, Passed, New
<2>8. RecoveryTokensAreUsedOnce'
  BY <1>0, <1>1, <2>1, <2>2, <2>3, NoneAssumption, AttemptsAssumption
     DEF IInv, TypeOK, Records, Challenges, Shapes, Is, Spent, RecordFailure, RequestsAreBegun,
       TokensAreIssued, RecoveryTokensAreUsedOnce, UsedOnce, Recovers, New
<2>9. StaleSessionsWereUnderWay'
  BY <1>0, <1>1, <2>1, <2>2, StaleStays, NoneAssumption DEF IInv, TypeOK, Records, Challenges, Shapes, Is,
       Halved, RequestsAreBegun, TokensAreIssued, New, RecordFailure
<2>. QED BY <2>3, <2>4, <2>5, <2>6, <2>7, <2>8, <2>9 DEF IInv
<1>2. CASE challenges[req[r].token].open /\ challenges[req[r].token].failed + 1 >= MaxAttempts
<2>. DEFINE n == [req[r] EXCEPT !.at = "discard"]
<2>1. n \in Shapes /\ Is(n, "discard", req[r].user, req[r].password, req[r].token, req[r].late, req[r].answer)
  BY <1>0, <1>2, GoShape DEF IInv, Steps, Answers
<2>2. req' = [req EXCEPT ![r] = n]
  BY <1>0, <1>2, NewShape DEF IInv, TypeOK, Records, Challenges, Shapes, RecordFailure, Becomes, Goes, Ends,
       RequestsAreBegun
<2>. HIDE DEF n
<2>3. TypeOK'
  BY <1>0, <1>2, <2>1, <2>2, NoneAssumption, OpenShape, FailedShape
     DEF IInv, TypeOK, Records, Challenges, Shapes, RequestsAreBegun, RecordFailure
<2>4. RequestsAreBegun'
  BY <1>0, <1>2, <2>1, <2>2, <2>3, NoneAssumption, AttemptsAssumption
     DEF IInv, TypeOK, Records, Challenges, Shapes, Is, Spent, RecordFailure, RequestsAreBegun
<2>5. TokensAreIssued'
  BY <1>0, <1>2, <2>1, <2>2, <2>3, NoneAssumption, AttemptsAssumption
     DEF IInv, TypeOK, Records, Challenges, Shapes, Is, Spent, RecordFailure, RequestsAreBegun,
       TokensAreIssued, Passed, Recovers, New
<2>6. LoginsAreFresh'
  BY <1>0, <1>2, <2>1, <2>2, <2>3, NoneAssumption, AttemptsAssumption
     DEF IInv, TypeOK, Records, Challenges, Shapes, Is, Spent, RecordFailure, RequestsAreBegun,
       TokensAreIssued, LoginsAreFresh, LoginSteps
<2>7. ChallengesGiveOneSession'
  BY <1>0, <1>2, <2>1, <2>2, <2>3, NoneAssumption, AttemptsAssumption
     DEF IInv, TypeOK, Records, Challenges, Shapes, Is, Spent, RecordFailure, RequestsAreBegun,
       TokensAreIssued, ChallengesGiveOneSession, Passed, New
<2>8. RecoveryTokensAreUsedOnce'
  BY <1>0, <1>2, <2>1, <2>2, <2>3, NoneAssumption, AttemptsAssumption
     DEF IInv, TypeOK, Records, Challenges, Shapes, Is, Spent, RecordFailure, RequestsAreBegun,
       TokensAreIssued, RecoveryTokensAreUsedOnce, UsedOnce, Recovers, New
<2>9. StaleSessionsWereUnderWay'
  BY <1>0, <1>2, <2>1, <2>2, StaleStays, NoneAssumption DEF IInv, TypeOK, Records, Challenges, Shapes, Is,
       Halved, RequestsAreBegun, TokensAreIssued, New, RecordFailure
<2>. QED BY <2>3, <2>4, <2>5, <2>6, <2>7, <2>8, <2>9 DEF IInv
<1>3. CASE challenges[req[r].token].open /\ ~(challenges[req[r].token].failed + 1 >= MaxAttempts)
<2>. DEFINE n == [req[r] EXCEPT !.at = "done", !.answer = "refused"]
<2>1. n \in Shapes /\ Is(n, "done", req[r].user, req[r].password, req[r].token, req[r].late, "refused")
  BY <1>0, <1>3, EndShape DEF IInv, Steps, Answers
<2>2. req' = [req EXCEPT ![r] = n]
  BY <1>0, <1>3, NewShape DEF IInv, TypeOK, Records, Challenges, Shapes, RecordFailure, Becomes, Goes, Ends,
       RequestsAreBegun
<2>. HIDE DEF n
<2>3. TypeOK'
  BY <1>0, <1>3, <2>1, <2>2, NoneAssumption, OpenShape, FailedShape
     DEF IInv, TypeOK, Records, Challenges, Shapes, RequestsAreBegun, RecordFailure
<2>4. RequestsAreBegun'
  BY <1>0, <1>3, <2>1, <2>2, <2>3, NoneAssumption, AttemptsAssumption
     DEF IInv, TypeOK, Records, Challenges, Shapes, Is, Spent, RecordFailure, RequestsAreBegun
<2>5. TokensAreIssued'
  BY <1>0, <1>3, <2>1, <2>2, <2>3, NoneAssumption, AttemptsAssumption
     DEF IInv, TypeOK, Records, Challenges, Shapes, Is, Spent, RecordFailure, RequestsAreBegun,
       TokensAreIssued, Passed, Recovers, New
<2>6. LoginsAreFresh'
  BY <1>0, <1>3, <2>1, <2>2, <2>3, NoneAssumption, AttemptsAssumption
     DEF IInv, TypeOK, Records, Challenges, Shapes, Is, Spent, RecordFailure, RequestsAreBegun,
       TokensAreIssued, LoginsAreFresh, LoginSteps
<2>7. ChallengesGiveOneSession'
  BY <1>0, <1>3, <2>1, <2>2, <2>3, NoneAssumption, AttemptsAssumption
     DEF IInv, TypeOK, Records, Challenges, Shapes, Is, Spent, RecordFailure, RequestsAreBegun,
       TokensAreIssued, ChallengesGiveOneSession, Passed, New
<2>8. RecoveryTokensAreUsedOnce'
  BY <1>0, <1>3, <2>1, <2>2, <2>3, NoneAssumption, AttemptsAssumption
     DEF IInv, TypeOK, Records, Challenges, Shapes, Is, Spent, RecordFailure, RequestsAreBegun,
       TokensAreIssued, RecoveryTokensAreUsedOnce, UsedOnce, Recovers, New
<2>9. StaleSessionsWereUnderWay'
  BY <1>0, <1>3, <2>1, <2>2, StaleStays, NoneAssumption DEF IInv, TypeOK, Records, Challenges, Shapes, Is,
       Halved, RequestsAreBegun, TokensAreIssued, New, RecordFailure
<2>. QED BY <2>3, <2>4, <2>5, <2>6, <2>7, <2>8, <2>9 DEF IInv
<1>. QED BY <1>1, <1>2, <1>3 DEF RecordFailure

LEMMA ConsumeKeeps ==
    ASSUME IInv, NEW r \in Requests, Consume(r), UNCHANGED backend
    PROVE  IInv'
<1>0. req[r].token \in Requests
  BY DEF IInv, TypeOK, Records, Challenges, Shapes, RequestsAreBegun, TokensAreIssued, Consume
<1>1. CASE challenges[req[r].token].open /\ ~Spent(req[r].token)
<2>. DEFINE n == [req[r] EXCEPT !.at = "session"]
<2>1. n \in Shapes /\ Is(n, "session", req[r].user, req[r].password, req[r].token, req[r].late, req[r].answer)
  BY <1>0, <1>1, GoShape DEF IInv, Steps, Answers
<2>2. req' = [req EXCEPT ![r] = n]
  BY <1>0, <1>1, NewShape DEF IInv, TypeOK, Records, Challenges, Shapes, Consume, Becomes, Goes, Ends,
       RequestsAreBegun
<2>. HIDE DEF n
<2>3. TypeOK'
  BY <1>0, <1>1, <2>1, <2>2, NoneAssumption, OpenShape, FailedShape
     DEF IInv, TypeOK, Records, Challenges, Shapes, RequestsAreBegun, Consume
<2>4. RequestsAreBegun'
  BY <1>0, <1>1, <2>1, <2>2, <2>3, NoneAssumption, AttemptsAssumption
     DEF IInv, TypeOK, Records, Challenges, Shapes, Is, Spent, Consume, RequestsAreBegun
<2>5. TokensAreIssued'
  BY <1>0, <1>1, <2>1, <2>2, <2>3, NoneAssumption, AttemptsAssumption
     DEF IInv, TypeOK, Records, Challenges, Shapes, Is, Spent, Consume, RequestsAreBegun, TokensAreIssued,
       Passed, Recovers, New
<2>6. LoginsAreFresh'
  BY <1>0, <1>1, <2>1, <2>2, <2>3, NoneAssumption, AttemptsAssumption
     DEF IInv, TypeOK, Records, Challenges, Shapes, Is, Spent, Consume, RequestsAreBegun, TokensAreIssued,
       LoginsAreFresh, LoginSteps
<2>7. ChallengesGiveOneSession'
  BY <1>0, <1>1, <2>1, <2>2, <2>3, NoneAssumption, AttemptsAssumption
     DEF IInv, TypeOK, Records, Challenges, Shapes, Is, Spent, Consume, RequestsAreBegun, TokensAreIssued,
       ChallengesGiveOneSession, Passed, New
<2>8. RecoveryTokensAreUsedOnce'
  BY <1>0, <1>1, <2>1, <2>2, <2>3, NoneAssumption, AttemptsAssumption
     DEF IInv, TypeOK, Records, Challenges, Shapes, Is, Spent, Consume, RequestsAreBegun, TokensAreIssued,
       RecoveryTokensAreUsedOnce, UsedOnce, Recovers, New
<2>9. StaleSessionsWereUnderWay'
  BY <1>0, <1>1, <2>1, <2>2, StaleStays, NoneAssumption DEF IInv, TypeOK, Records, Challenges, Shapes, Is,
       Halved, RequestsAreBegun, TokensAreIssued, New, Consume
<2>. QED BY <2>3, <2>4, <2>5, <2>6, <2>7, <2>8, <2>9 DEF IInv
<1>2. CASE ~(challenges[req[r].token].open /\ ~Spent(req[r].token))
<2>. DEFINE n == [req[r] EXCEPT !.at = "done", !.answer = "refused"]
<2>1. n \in Shapes /\ Is(n, "done", req[r].user, req[r].password, req[r].token, req[r].late, "refused")
  BY <1>0, <1>2, EndShape DEF IInv, Steps, Answers
<2>2. req' = [req EXCEPT ![r] = n]
  BY <1>0, <1>2, NewShape DEF IInv, TypeOK, Records, Challenges, Shapes, Consume, Becomes, Goes, Ends,
       RequestsAreBegun
<2>. HIDE DEF n
<2>3. TypeOK'
  BY <1>0, <1>2, <2>1, <2>2, NoneAssumption, OpenShape, FailedShape
     DEF IInv, TypeOK, Records, Challenges, Shapes, RequestsAreBegun, Consume
<2>4. RequestsAreBegun'
  BY <1>0, <1>2, <2>1, <2>2, <2>3, NoneAssumption, AttemptsAssumption
     DEF IInv, TypeOK, Records, Challenges, Shapes, Is, Spent, Consume, RequestsAreBegun
<2>5. TokensAreIssued'
  BY <1>0, <1>2, <2>1, <2>2, <2>3, NoneAssumption, AttemptsAssumption
     DEF IInv, TypeOK, Records, Challenges, Shapes, Is, Spent, Consume, RequestsAreBegun, TokensAreIssued,
       Passed, Recovers, New
<2>6. LoginsAreFresh'
  BY <1>0, <1>2, <2>1, <2>2, <2>3, NoneAssumption, AttemptsAssumption
     DEF IInv, TypeOK, Records, Challenges, Shapes, Is, Spent, Consume, RequestsAreBegun, TokensAreIssued,
       LoginsAreFresh, LoginSteps
<2>7. ChallengesGiveOneSession'
  BY <1>0, <1>2, <2>1, <2>2, <2>3, NoneAssumption, AttemptsAssumption
     DEF IInv, TypeOK, Records, Challenges, Shapes, Is, Spent, Consume, RequestsAreBegun, TokensAreIssued,
       ChallengesGiveOneSession, Passed, New
<2>8. RecoveryTokensAreUsedOnce'
  BY <1>0, <1>2, <2>1, <2>2, <2>3, NoneAssumption, AttemptsAssumption
     DEF IInv, TypeOK, Records, Challenges, Shapes, Is, Spent, Consume, RequestsAreBegun, TokensAreIssued,
       RecoveryTokensAreUsedOnce, UsedOnce, Recovers, New
<2>9. StaleSessionsWereUnderWay'
  BY <1>0, <1>2, <2>1, <2>2, StaleStays, NoneAssumption DEF IInv, TypeOK, Records, Challenges, Shapes, Is,
       Halved, RequestsAreBegun, TokensAreIssued, New, Consume
<2>. QED BY <2>3, <2>4, <2>5, <2>6, <2>7, <2>8, <2>9 DEF IInv
<1>. QED BY <1>1, <1>2 DEF Consume

LEMMA DiscardKeeps ==
    ASSUME IInv, NEW r \in Requests, Discard(r), UNCHANGED backend
    PROVE  IInv'
<1>0. req[r].token \in Requests
  BY DEF IInv, TypeOK, Records, Challenges, Shapes, RequestsAreBegun, TokensAreIssued, Discard
<1>. DEFINE n == [req[r] EXCEPT !.at = "done", !.answer = "refused"]
<1>1. n \in Shapes /\ Is(n, "done", req[r].user, req[r].password, req[r].token, req[r].late, "refused")
  BY <1>0, EndShape DEF IInv, Steps, Answers
<1>2. req' = [req EXCEPT ![r] = n]
  BY <1>0, NewShape DEF IInv, TypeOK, Records, Challenges, Shapes, Discard, Becomes, Goes, Ends,
       RequestsAreBegun
<1>. HIDE DEF n
<1>3. TypeOK'
  BY <1>0, <1>1, <1>2, NoneAssumption, OpenShape, FailedShape
     DEF IInv, TypeOK, Records, Challenges, Shapes, RequestsAreBegun, Discard
<1>4. RequestsAreBegun'
  BY <1>0, <1>1, <1>2, <1>3, NoneAssumption, AttemptsAssumption
     DEF IInv, TypeOK, Records, Challenges, Shapes, Is, Spent, Discard, RequestsAreBegun
<1>5. TokensAreIssued'
  BY <1>0, <1>1, <1>2, <1>3, NoneAssumption, AttemptsAssumption
     DEF IInv, TypeOK, Records, Challenges, Shapes, Is, Spent, Discard, RequestsAreBegun, TokensAreIssued,
       Passed, Recovers, New
<1>6. LoginsAreFresh'
  BY <1>0, <1>1, <1>2, <1>3, NoneAssumption, AttemptsAssumption
     DEF IInv, TypeOK, Records, Challenges, Shapes, Is, Spent, Discard, RequestsAreBegun, TokensAreIssued,
       LoginsAreFresh, LoginSteps
<1>7. ChallengesGiveOneSession'
  BY <1>0, <1>1, <1>2, <1>3, NoneAssumption, AttemptsAssumption
     DEF IInv, TypeOK, Records, Challenges, Shapes, Is, Spent, Discard, RequestsAreBegun, TokensAreIssued,
       ChallengesGiveOneSession, Passed, New
<1>8. RecoveryTokensAreUsedOnce'
  BY <1>0, <1>1, <1>2, <1>3, NoneAssumption, AttemptsAssumption
     DEF IInv, TypeOK, Records, Challenges, Shapes, Is, Spent, Discard, RequestsAreBegun, TokensAreIssued,
       RecoveryTokensAreUsedOnce, UsedOnce, Recovers, New
<1>9. StaleSessionsWereUnderWay'
  BY <1>0, <1>1, <1>2, StaleStays, NoneAssumption DEF IInv, TypeOK, Records, Challenges, Shapes, Is, Halved,
       RequestsAreBegun, TokensAreIssued, New, Discard
<1>. QED BY <1>3, <1>4, <1>5, <1>6, <1>7, <1>8, <1>9 DEF IInv

LEMMA SetTotpKeeps ==
    ASSUME IInv, NEW r \in Requests, NEW u \in Users, NEW totp \in BOOLEAN, SetTotp(r, u, totp), UNCHANGED backend
    PROVE  IInv'
<1>. DEFINE n == [req[r] EXCEPT !.at = "done", !.answer = "changed"]
<1>1. n \in Shapes /\ Is(n, "done", req[r].user, req[r].password, req[r].token, req[r].late, "changed")
  BY EndShape DEF IInv, Steps, Answers
<1>2. req' = [req EXCEPT ![r] = n]
  BY NewShape DEF IInv, TypeOK, Records, Challenges, Shapes, SetTotp, Becomes, Goes, Ends, RequestsAreBegun
<1>. HIDE DEF n
<1>3. TypeOK'
  BY <1>1, <1>2, NoneAssumption DEF IInv, TypeOK, Records, Challenges, Shapes, RequestsAreBegun, SetTotp
<1>4. RequestsAreBegun'
  BY <1>1, <1>2, <1>3, NoneAssumption, AttemptsAssumption DEF IInv, TypeOK, Records, Challenges, Shapes, Is,
       Spent, SetTotp, RequestsAreBegun
<1>5. TokensAreIssued'
  BY <1>1, <1>2, <1>3, NoneAssumption, AttemptsAssumption DEF IInv, TypeOK, Records, Challenges, Shapes, Is,
       Spent, SetTotp, RequestsAreBegun, TokensAreIssued, Passed, Recovers, New
<1>6. LoginsAreFresh'
  BY <1>1, <1>2, <1>3, NoneAssumption, AttemptsAssumption DEF IInv, TypeOK, Records, Challenges, Shapes, Is,
       Spent, SetTotp, RequestsAreBegun, TokensAreIssued, LoginsAreFresh, LoginSteps
<1>7. ChallengesGiveOneSession'
  BY <1>1, <1>2, <1>3, NoneAssumption, AttemptsAssumption DEF IInv, TypeOK, Records, Challenges, Shapes, Is,
       Spent, SetTotp, RequestsAreBegun, TokensAreIssued, ChallengesGiveOneSession, Passed, New
<1>8. RecoveryTokensAreUsedOnce'
  BY <1>1, <1>2, <1>3, NoneAssumption, AttemptsAssumption DEF IInv, TypeOK, Records, Challenges, Shapes, Is,
       Spent, SetTotp, RequestsAreBegun, TokensAreIssued, RecoveryTokensAreUsedOnce, UsedOnce, Recovers, New
<1>9. StaleSessionsWereUnderWay'
  BY <1>1, <1>2, StaleStays, NoneAssumption DEF IInv, TypeOK, Records, Challenges, Shapes, Is, Halved,
       RequestsAreBegun, TokensAreIssued, New, SetTotp
<1>. QED BY <1>3, <1>4, <1>5, <1>6, <1>7, <1>8, <1>9 DEF IInv

LEMMA AskRecoveryKeeps ==
    ASSUME IInv, NEW r \in Requests, NEW u \in Users, AskRecovery(r, u), UNCHANGED backend
    PROVE  IInv'
<1>. DEFINE n == [New EXCEPT !.user = u, !.at = "mail"]
<1>1. n \in Shapes /\ Is(n, "mail", u, None, None, FALSE, "none")
  BY NewShape, LoginShape, NoneAssumption DEF IInv, TypeOK, Records, Challenges, Shapes, Is, Admitted, Steps,
       Answers, RequestsAreBegun, TokensAreIssued, New, AskRecovery
<1>2. req' = [req EXCEPT ![r] = n]
  BY NewShape DEF IInv, TypeOK, Records, Challenges, Shapes, AskRecovery, Becomes, Goes, Ends,
       RequestsAreBegun
<1>. HIDE DEF n
<1>3. TypeOK'
  BY <1>1, <1>2, NoneAssumption DEF IInv, TypeOK, Records, Challenges, Shapes, RequestsAreBegun, AskRecovery
<1>4. RequestsAreBegun'
  BY <1>1, <1>2, <1>3, NoneAssumption, AttemptsAssumption DEF IInv, TypeOK, Records, Challenges, Shapes, Is,
       Spent, AskRecovery, RequestsAreBegun
<1>5. TokensAreIssued'
  BY <1>1, <1>2, <1>3, NoneAssumption, AttemptsAssumption DEF IInv, TypeOK, Records, Challenges, Shapes, Is,
       Spent, AskRecovery, RequestsAreBegun, TokensAreIssued, Passed, Recovers, New
<1>6. LoginsAreFresh'
  BY <1>1, <1>2, <1>3, NoneAssumption, AttemptsAssumption DEF IInv, TypeOK, Records, Challenges, Shapes, Is,
       Spent, AskRecovery, RequestsAreBegun, TokensAreIssued, LoginsAreFresh, LoginSteps
<1>7. ChallengesGiveOneSession'
  BY <1>1, <1>2, <1>3, NoneAssumption, AttemptsAssumption DEF IInv, TypeOK, Records, Challenges, Shapes, Is,
       Spent, AskRecovery, RequestsAreBegun, TokensAreIssued, ChallengesGiveOneSession, Passed, New
<1>8. RecoveryTokensAreUsedOnce'
  BY <1>1, <1>2, <1>3, NoneAssumption, AttemptsAssumption DEF IInv, TypeOK, Records, Challenges, Shapes, Is,
       Spent, AskRecovery, RequestsAreBegun, TokensAreIssued, RecoveryTokensAreUsedOnce, UsedOnce, Recovers,
       New
<1>9. StaleSessionsWereUnderWay'
  BY <1>1, <1>2, StaleStays, NoneAssumption DEF IInv, TypeOK, Records, Challenges, Shapes, Is, Halved,
       RequestsAreBegun, TokensAreIssued, New, AskRecovery
<1>. QED BY <1>3, <1>4, <1>5, <1>6, <1>7, <1>8, <1>9 DEF IInv

LEMMA MailedKeeps ==
    ASSUME IInv, NEW r \in Requests, Mailed(r), UNCHANGED backend
    PROVE  IInv'
<1>. DEFINE n == [req[r] EXCEPT !.at = "done", !.answer = "asked"]
<1>1. n \in Shapes /\ Is(n, "done", req[r].user, req[r].password, req[r].token, req[r].late, "asked")
  BY EndShape DEF IInv, Steps, Answers
<1>2. req' = [req EXCEPT ![r] = n]
  BY NewShape DEF IInv, TypeOK, Records, Challenges, Shapes, Mailed, Becomes, Goes, Ends, RequestsAreBegun
<1>. HIDE DEF n
<1>3. TypeOK'
  BY <1>1, <1>2, NoneAssumption DEF IInv, TypeOK, Records, Challenges, Shapes, RequestsAreBegun, Mailed
<1>4. RequestsAreBegun'
  BY <1>1, <1>2, <1>3, NoneAssumption, AttemptsAssumption DEF IInv, TypeOK, Records, Challenges, Shapes, Is,
       Spent, Mailed, RequestsAreBegun
<1>5. TokensAreIssued'
  BY <1>1, <1>2, <1>3, NoneAssumption, AttemptsAssumption DEF IInv, TypeOK, Records, Challenges, Shapes, Is,
       Spent, Mailed, RequestsAreBegun, TokensAreIssued, Passed, Recovers, New
<1>6. LoginsAreFresh'
  BY <1>1, <1>2, <1>3, NoneAssumption, AttemptsAssumption DEF IInv, TypeOK, Records, Challenges, Shapes, Is,
       Spent, Mailed, RequestsAreBegun, TokensAreIssued, LoginsAreFresh, LoginSteps
<1>7. ChallengesGiveOneSession'
  BY <1>1, <1>2, <1>3, NoneAssumption, AttemptsAssumption DEF IInv, TypeOK, Records, Challenges, Shapes, Is,
       Spent, Mailed, RequestsAreBegun, TokensAreIssued, ChallengesGiveOneSession, Passed, New
<1>8. RecoveryTokensAreUsedOnce'
  BY <1>1, <1>2, <1>3, NoneAssumption, AttemptsAssumption DEF IInv, TypeOK, Records, Challenges, Shapes, Is,
       Spent, Mailed, RequestsAreBegun, TokensAreIssued, RecoveryTokensAreUsedOnce, UsedOnce, Recovers, New
<1>9. StaleSessionsWereUnderWay'
  BY <1>1, <1>2, StaleStays, NoneAssumption DEF IInv, TypeOK, Records, Challenges, Shapes, Is, Halved,
       RequestsAreBegun, TokensAreIssued, New, Mailed
<1>. QED BY <1>3, <1>4, <1>5, <1>6, <1>7, <1>8, <1>9 DEF IInv

LEMMA NotMailedKeeps ==
    ASSUME IInv, NEW r \in Requests, NotMailed(r), UNCHANGED backend
    PROVE  IInv'
<1>. DEFINE n == [req[r] EXCEPT !.at = "done", !.answer = "asked"]
<1>1. n \in Shapes /\ Is(n, "done", req[r].user, req[r].password, req[r].token, req[r].late, "asked")
  BY EndShape DEF IInv, Steps, Answers
<1>2. req' = [req EXCEPT ![r] = n]
  BY NewShape DEF IInv, TypeOK, Records, Challenges, Shapes, NotMailed, Becomes, Goes, Ends, RequestsAreBegun
<1>. HIDE DEF n
<1>3. TypeOK'
  BY <1>1, <1>2, NoneAssumption DEF IInv, TypeOK, Records, Challenges, Shapes, RequestsAreBegun, NotMailed
<1>4. RequestsAreBegun'
  BY <1>1, <1>2, <1>3, NoneAssumption, AttemptsAssumption DEF IInv, TypeOK, Records, Challenges, Shapes, Is,
       Spent, NotMailed, RequestsAreBegun
<1>5. TokensAreIssued'
  BY <1>1, <1>2, <1>3, NoneAssumption, AttemptsAssumption DEF IInv, TypeOK, Records, Challenges, Shapes, Is,
       Spent, NotMailed, RequestsAreBegun, TokensAreIssued, Passed, Recovers, New
<1>6. LoginsAreFresh'
  BY <1>1, <1>2, <1>3, NoneAssumption, AttemptsAssumption DEF IInv, TypeOK, Records, Challenges, Shapes, Is,
       Spent, NotMailed, RequestsAreBegun, TokensAreIssued, LoginsAreFresh, LoginSteps
<1>7. ChallengesGiveOneSession'
  BY <1>1, <1>2, <1>3, NoneAssumption, AttemptsAssumption DEF IInv, TypeOK, Records, Challenges, Shapes, Is,
       Spent, NotMailed, RequestsAreBegun, TokensAreIssued, ChallengesGiveOneSession, Passed, New
<1>8. RecoveryTokensAreUsedOnce'
  BY <1>1, <1>2, <1>3, NoneAssumption, AttemptsAssumption DEF IInv, TypeOK, Records, Challenges, Shapes, Is,
       Spent, NotMailed, RequestsAreBegun, TokensAreIssued, RecoveryTokensAreUsedOnce, UsedOnce, Recovers, New
<1>9. StaleSessionsWereUnderWay'
  BY <1>1, <1>2, StaleStays, NoneAssumption DEF IInv, TypeOK, Records, Challenges, Shapes, Is, Halved,
       RequestsAreBegun, TokensAreIssued, New, NotMailed
<1>. QED BY <1>3, <1>4, <1>5, <1>6, <1>7, <1>8, <1>9 DEF IInv

LEMMA RecoverKeeps ==
    ASSUME IInv, NEW r \in Requests, NEW x \in Requests, NEW p \in Passwords, Recover(r, x, p), UNCHANGED backend
    PROVE  IInv'
<1>0. req[x].user \in Users \cup {None}
  BY DEF IInv, TypeOK, Records, Challenges, Shapes, RequestsAreBegun, TokensAreIssued, Recover
<1>1. CASE resets[x] # "open"
<2>. DEFINE n == [req[r] EXCEPT !.at = "done", !.answer = "refused"]
<2>1. n \in Shapes /\ Is(n, "done", req[r].user, req[r].password, req[r].token, req[r].late, "refused")
  BY <1>0, <1>1, EndShape DEF IInv, Steps, Answers
<2>2. req' = [req EXCEPT ![r] = n]
  BY <1>0, <1>1, NewShape DEF IInv, TypeOK, Records, Challenges, Shapes, Recover, Becomes, Goes, Ends,
       RequestsAreBegun
<2>. HIDE DEF n
<2>3. TypeOK'
  BY <1>0, <1>1, <2>1, <2>2, NoneAssumption DEF IInv, TypeOK, Records, Challenges, Shapes, RequestsAreBegun,
       Recover
<2>4. RequestsAreBegun'
  BY <1>0, <1>1, <2>1, <2>2, <2>3, NoneAssumption, AttemptsAssumption
     DEF IInv, TypeOK, Records, Challenges, Shapes, Is, Spent, Recover, RequestsAreBegun, TokensAreIssued,
       Passed, Recovers
<2>5. TokensAreIssued'
  BY <1>0, <1>1, <2>1, <2>2, <2>3, NoneAssumption, AttemptsAssumption
     DEF IInv, TypeOK, Records, Challenges, Shapes, Is, Spent, Recover, RequestsAreBegun, TokensAreIssued,
       Passed, Recovers, New
<2>6. LoginsAreFresh'
  BY <1>0, <1>1, <2>1, <2>2, <2>3, NoneAssumption, AttemptsAssumption
     DEF IInv, TypeOK, Records, Challenges, Shapes, Is, Spent, Recover, RequestsAreBegun, TokensAreIssued,
       LoginsAreFresh, LoginSteps
<2>7. ChallengesGiveOneSession'
  BY <1>0, <1>1, <2>1, <2>2, <2>3, NoneAssumption, AttemptsAssumption
     DEF IInv, TypeOK, Records, Challenges, Shapes, Is, Spent, Recover, RequestsAreBegun, TokensAreIssued,
       ChallengesGiveOneSession, Passed, New
<2>8. RecoveryTokensAreUsedOnce'
  BY <1>0, <1>1, <2>1, <2>2, <2>3, NoneAssumption, AttemptsAssumption
     DEF IInv, TypeOK, Records, Challenges, Shapes, Is, Spent, Recover, RequestsAreBegun, TokensAreIssued,
       RecoveryTokensAreUsedOnce, UsedOnce, Recovers, New
<2>9. StaleSessionsWereUnderWay'
  BY <1>0, <1>1, <2>1, <2>2, StaleStays, NoneAssumption DEF IInv, TypeOK, Records, Challenges, Shapes, Is,
       Halved, RequestsAreBegun, TokensAreIssued, New, Recover
<2>. QED BY <2>3, <2>4, <2>5, <2>6, <2>7, <2>8, <2>9 DEF IInv
<1>2. CASE resets[x] = "open" /\ backend = "d1"
<2>. DEFINE n == [[New EXCEPT !.user = req[x].user, !.password = p, !.token = x] EXCEPT !.at = "mark"]
<2>1. n \in Shapes /\ Is(n, "mark", req[x].user, p, x, FALSE, "none")
  BY <1>0, <1>2, NewShape, LoginShape, NoneAssumption DEF IInv, TypeOK, Records, Challenges, Shapes, Is,
       Admitted, Steps, Answers, RequestsAreBegun, TokensAreIssued, New, Recover
<2>2. req' = [req EXCEPT ![r] = n]
  BY <1>0, <1>2, NewShape DEF IInv, TypeOK, Records, Challenges, Shapes, Recover, Becomes, Goes, Ends,
       RequestsAreBegun
<2>. HIDE DEF n
<2>3. TypeOK'
  BY <1>0, <1>2, <2>1, <2>2, NoneAssumption DEF IInv, TypeOK, Records, Challenges, Shapes, RequestsAreBegun,
       Recover
<2>4. RequestsAreBegun'
  BY <1>0, <1>2, <2>1, <2>2, <2>3, NoneAssumption, AttemptsAssumption
     DEF IInv, TypeOK, Records, Challenges, Shapes, Is, Spent, Recover, RequestsAreBegun, TokensAreIssued,
       Passed, Recovers
<2>5. TokensAreIssued'
  BY <1>0, <1>2, <2>1, <2>2, <2>3, NoneAssumption, AttemptsAssumption
     DEF IInv, TypeOK, Records, Challenges, Shapes, Is, Spent, Recover, RequestsAreBegun, TokensAreIssued,
       Passed, Recovers, New
<2>6. LoginsAreFresh'
  BY <1>0, <1>2, <2>1, <2>2, <2>3, NoneAssumption, AttemptsAssumption
     DEF IInv, TypeOK, Records, Challenges, Shapes, Is, Spent, Recover, RequestsAreBegun, TokensAreIssued,
       LoginsAreFresh, LoginSteps
<2>7. ChallengesGiveOneSession'
  BY <1>0, <1>2, <2>1, <2>2, <2>3, NoneAssumption, AttemptsAssumption
     DEF IInv, TypeOK, Records, Challenges, Shapes, Is, Spent, Recover, RequestsAreBegun, TokensAreIssued,
       ChallengesGiveOneSession, Passed, New
<2>8. RecoveryTokensAreUsedOnce'
  BY <1>0, <1>2, <2>1, <2>2, <2>3, NoneAssumption, AttemptsAssumption
     DEF IInv, TypeOK, Records, Challenges, Shapes, Is, Spent, Recover, RequestsAreBegun, TokensAreIssued,
       RecoveryTokensAreUsedOnce, UsedOnce, Recovers, New
<2>9. StaleSessionsWereUnderWay'
  BY <1>0, <1>2, <2>1, <2>2, StaleStays, NoneAssumption DEF IInv, TypeOK, Records, Challenges, Shapes, Is,
       Halved, RequestsAreBegun, TokensAreIssued, New, Recover
<2>. QED BY <2>3, <2>4, <2>5, <2>6, <2>7, <2>8, <2>9 DEF IInv
<1>3. CASE resets[x] = "open" /\ backend # "d1"
<2>. DEFINE n == [[New EXCEPT !.user = req[x].user, !.password = p, !.token = x] EXCEPT !.at = "store"]
<2>1. n \in Shapes /\ Is(n, "store", req[x].user, p, x, FALSE, "none")
  BY <1>0, <1>3, NewShape, LoginShape, NoneAssumption DEF IInv, TypeOK, Records, Challenges, Shapes, Is,
       Admitted, Steps, Answers, RequestsAreBegun, TokensAreIssued, New, Recover
<2>2. req' = [req EXCEPT ![r] = n]
  BY <1>0, <1>3, NewShape DEF IInv, TypeOK, Records, Challenges, Shapes, Recover, Becomes, Goes, Ends,
       RequestsAreBegun
<2>. HIDE DEF n
<2>3. TypeOK'
  BY <1>0, <1>3, <2>1, <2>2, NoneAssumption DEF IInv, TypeOK, Records, Challenges, Shapes, RequestsAreBegun,
       Recover
<2>4. RequestsAreBegun'
  BY <1>0, <1>3, <2>1, <2>2, <2>3, NoneAssumption, AttemptsAssumption
     DEF IInv, TypeOK, Records, Challenges, Shapes, Is, Spent, Recover, RequestsAreBegun, TokensAreIssued,
       Passed, Recovers
<2>5. TokensAreIssued'
  BY <1>0, <1>3, <2>1, <2>2, <2>3, NoneAssumption, AttemptsAssumption
     DEF IInv, TypeOK, Records, Challenges, Shapes, Is, Spent, Recover, RequestsAreBegun, TokensAreIssued,
       Passed, Recovers, New
<2>6. LoginsAreFresh'
  BY <1>0, <1>3, <2>1, <2>2, <2>3, NoneAssumption, AttemptsAssumption
     DEF IInv, TypeOK, Records, Challenges, Shapes, Is, Spent, Recover, RequestsAreBegun, TokensAreIssued,
       LoginsAreFresh, LoginSteps
<2>7. ChallengesGiveOneSession'
  BY <1>0, <1>3, <2>1, <2>2, <2>3, NoneAssumption, AttemptsAssumption
     DEF IInv, TypeOK, Records, Challenges, Shapes, Is, Spent, Recover, RequestsAreBegun, TokensAreIssued,
       ChallengesGiveOneSession, Passed, New
<2>8. RecoveryTokensAreUsedOnce'
  BY <1>0, <1>3, <2>1, <2>2, <2>3, NoneAssumption, AttemptsAssumption
     DEF IInv, TypeOK, Records, Challenges, Shapes, Is, Spent, Recover, RequestsAreBegun, TokensAreIssued,
       RecoveryTokensAreUsedOnce, UsedOnce, Recovers, New
<2>9. StaleSessionsWereUnderWay'
  BY <1>0, <1>3, <2>1, <2>2, StaleStays, NoneAssumption DEF IInv, TypeOK, Records, Challenges, Shapes, Is,
       Halved, RequestsAreBegun, TokensAreIssued, New, Recover
<2>. QED BY <2>3, <2>4, <2>5, <2>6, <2>7, <2>8, <2>9 DEF IInv
<1>. QED BY <1>1, <1>2, <1>3 DEF Recover

LEMMA MarkUsedKeeps ==
    ASSUME IInv, NEW r \in Requests, MarkUsed(r), UNCHANGED backend
    PROVE  IInv'
<1>0. req[r].token \in Requests
  BY DEF IInv, TypeOK, Records, Challenges, Shapes, RequestsAreBegun, TokensAreIssued, MarkUsed
<1>. DEFINE n == [req[r] EXCEPT !.at = "store"]
<1>1. n \in Shapes /\ Is(n, "store", req[r].user, req[r].password, req[r].token, req[r].late, req[r].answer)
  BY <1>0, GoShape DEF IInv, Steps, Answers
<1>2. req' = [req EXCEPT ![r] = n]
  BY <1>0, NewShape DEF IInv, TypeOK, Records, Challenges, Shapes, MarkUsed, Becomes, Goes, Ends,
       RequestsAreBegun
<1>. HIDE DEF n
<1>3. TypeOK'
  BY <1>0, <1>1, <1>2, NoneAssumption DEF IInv, TypeOK, Records, Challenges, Shapes, RequestsAreBegun,
       MarkUsed
<1>4. RequestsAreBegun'
  BY <1>0, <1>1, <1>2, <1>3, NoneAssumption, AttemptsAssumption
     DEF IInv, TypeOK, Records, Challenges, Shapes, Is, Spent, MarkUsed, RequestsAreBegun
<1>5. TokensAreIssued'
  BY <1>0, <1>1, <1>2, <1>3, NoneAssumption, AttemptsAssumption
     DEF IInv, TypeOK, Records, Challenges, Shapes, Is, Spent, MarkUsed, RequestsAreBegun, TokensAreIssued,
       Passed, Recovers, New
<1>6. LoginsAreFresh'
  BY <1>0, <1>1, <1>2, <1>3, NoneAssumption, AttemptsAssumption
     DEF IInv, TypeOK, Records, Challenges, Shapes, Is, Spent, MarkUsed, RequestsAreBegun, TokensAreIssued,
       LoginsAreFresh, LoginSteps
<1>7. ChallengesGiveOneSession'
  BY <1>0, <1>1, <1>2, <1>3, NoneAssumption, AttemptsAssumption
     DEF IInv, TypeOK, Records, Challenges, Shapes, Is, Spent, MarkUsed, RequestsAreBegun, TokensAreIssued,
       ChallengesGiveOneSession, Passed, New
<1>8. RecoveryTokensAreUsedOnce'
  BY <1>0, <1>1, <1>2, <1>3, NoneAssumption, AttemptsAssumption
     DEF IInv, TypeOK, Records, Challenges, Shapes, Is, Spent, MarkUsed, RequestsAreBegun, TokensAreIssued,
       RecoveryTokensAreUsedOnce, UsedOnce, Recovers, New
<1>9. StaleSessionsWereUnderWay'
  BY <1>0, <1>1, <1>2, StaleStays, NoneAssumption DEF IInv, TypeOK, Records, Challenges, Shapes, Is, Halved,
       RequestsAreBegun, TokensAreIssued, New, MarkUsed
<1>. QED BY <1>3, <1>4, <1>5, <1>6, <1>7, <1>8, <1>9 DEF IInv

LEMMA ChangeKeeps ==
    ASSUME IInv, NEW r \in Requests, NEW u \in Users, NEW p \in Passwords, NEW right \in BOOLEAN, NEW q \in Passwords,
           Change(r, u, p, right, q), UNCHANGED backend
    PROVE  IInv'
<1>1. CASE p = users[u].password /\ (users[u].totp => right)
<2>. DEFINE n == [New EXCEPT !.user = u, !.password = q, !.at = "store"]
<2>1. n \in Shapes /\ Is(n, "store", u, q, None, FALSE, "none")
  BY <1>1, NewShape, LoginShape, NoneAssumption DEF IInv, TypeOK, Records, Challenges, Shapes, Is, Admitted,
       Steps, Answers, RequestsAreBegun, TokensAreIssued, New, Change
<2>2. req' = [req EXCEPT ![r] = n]
  BY <1>1, NewShape DEF IInv, TypeOK, Records, Challenges, Shapes, Change, Becomes, Goes, Ends,
       RequestsAreBegun
<2>. HIDE DEF n
<2>3. TypeOK'
  BY <1>1, <2>1, <2>2, NoneAssumption DEF IInv, TypeOK, Records, Challenges, Shapes, RequestsAreBegun, Change
<2>4. RequestsAreBegun'
  BY <1>1, <2>1, <2>2, <2>3, NoneAssumption, AttemptsAssumption
     DEF IInv, TypeOK, Records, Challenges, Shapes, Is, Spent, Change, RequestsAreBegun
<2>5. TokensAreIssued'
  BY <1>1, <2>1, <2>2, <2>3, NoneAssumption, AttemptsAssumption
     DEF IInv, TypeOK, Records, Challenges, Shapes, Is, Spent, Change, RequestsAreBegun, TokensAreIssued,
       Passed, Recovers, New
<2>6. LoginsAreFresh'
  BY <1>1, <2>1, <2>2, <2>3, NoneAssumption, AttemptsAssumption
     DEF IInv, TypeOK, Records, Challenges, Shapes, Is, Spent, Change, RequestsAreBegun, TokensAreIssued,
       LoginsAreFresh, LoginSteps
<2>7. ChallengesGiveOneSession'
  BY <1>1, <2>1, <2>2, <2>3, NoneAssumption, AttemptsAssumption
     DEF IInv, TypeOK, Records, Challenges, Shapes, Is, Spent, Change, RequestsAreBegun, TokensAreIssued,
       ChallengesGiveOneSession, Passed, New
<2>8. RecoveryTokensAreUsedOnce'
  BY <1>1, <2>1, <2>2, <2>3, NoneAssumption, AttemptsAssumption
     DEF IInv, TypeOK, Records, Challenges, Shapes, Is, Spent, Change, RequestsAreBegun, TokensAreIssued,
       RecoveryTokensAreUsedOnce, UsedOnce, Recovers, New
<2>9. StaleSessionsWereUnderWay'
  BY <1>1, <2>1, <2>2, StaleStays, NoneAssumption DEF IInv, TypeOK, Records, Challenges, Shapes, Is, Halved,
       RequestsAreBegun, TokensAreIssued, New, Change
<2>. QED BY <2>3, <2>4, <2>5, <2>6, <2>7, <2>8, <2>9 DEF IInv
<1>2. CASE ~(p = users[u].password /\ (users[u].totp => right))
<2>. DEFINE n == [req[r] EXCEPT !.at = "done", !.answer = "refused"]
<2>1. n \in Shapes /\ Is(n, "done", req[r].user, req[r].password, req[r].token, req[r].late, "refused")
  BY <1>2, EndShape DEF IInv, Steps, Answers
<2>2. req' = [req EXCEPT ![r] = n]
  BY <1>2, NewShape DEF IInv, TypeOK, Records, Challenges, Shapes, Change, Becomes, Goes, Ends,
       RequestsAreBegun
<2>. HIDE DEF n
<2>3. TypeOK'
  BY <1>2, <2>1, <2>2, NoneAssumption DEF IInv, TypeOK, Records, Challenges, Shapes, RequestsAreBegun, Change
<2>4. RequestsAreBegun'
  BY <1>2, <2>1, <2>2, <2>3, NoneAssumption, AttemptsAssumption
     DEF IInv, TypeOK, Records, Challenges, Shapes, Is, Spent, Change, RequestsAreBegun
<2>5. TokensAreIssued'
  BY <1>2, <2>1, <2>2, <2>3, NoneAssumption, AttemptsAssumption
     DEF IInv, TypeOK, Records, Challenges, Shapes, Is, Spent, Change, RequestsAreBegun, TokensAreIssued,
       Passed, Recovers, New
<2>6. LoginsAreFresh'
  BY <1>2, <2>1, <2>2, <2>3, NoneAssumption, AttemptsAssumption
     DEF IInv, TypeOK, Records, Challenges, Shapes, Is, Spent, Change, RequestsAreBegun, TokensAreIssued,
       LoginsAreFresh, LoginSteps
<2>7. ChallengesGiveOneSession'
  BY <1>2, <2>1, <2>2, <2>3, NoneAssumption, AttemptsAssumption
     DEF IInv, TypeOK, Records, Challenges, Shapes, Is, Spent, Change, RequestsAreBegun, TokensAreIssued,
       ChallengesGiveOneSession, Passed, New
<2>8. RecoveryTokensAreUsedOnce'
  BY <1>2, <2>1, <2>2, <2>3, NoneAssumption, AttemptsAssumption
     DEF IInv, TypeOK, Records, Challenges, Shapes, Is, Spent, Change, RequestsAreBegun, TokensAreIssued,
       RecoveryTokensAreUsedOnce, UsedOnce, Recovers, New
<2>9. StaleSessionsWereUnderWay'
  BY <1>2, <2>1, <2>2, StaleStays, NoneAssumption DEF IInv, TypeOK, Records, Challenges, Shapes, Is, Halved,
       RequestsAreBegun, TokensAreIssued, New, Change
<2>. QED BY <2>3, <2>4, <2>5, <2>6, <2>7, <2>8, <2>9 DEF IInv
<1>. QED BY <1>1, <1>2 DEF Change

LEMMA InvalidateResetsKeeps ==
    ASSUME IInv, NEW r \in Requests, InvalidateResets(r), UNCHANGED backend
    PROVE  IInv'
<1>. DEFINE n == [req[r] EXCEPT !.at = "revoke"]
<1>1. n \in Shapes /\ Is(n, "revoke", req[r].user, req[r].password, req[r].token, req[r].late, req[r].answer)
  BY GoShape DEF IInv, Steps, Answers
<1>2. req' = [req EXCEPT ![r] = n]
  BY NewShape DEF IInv, TypeOK, Records, Challenges, Shapes, InvalidateResets, Becomes, Goes, Ends,
       RequestsAreBegun
<1>. HIDE DEF n
<1>3. TypeOK'
  BY <1>1, <1>2, NoneAssumption DEF IInv, TypeOK, Records, Challenges, Shapes, RequestsAreBegun,
       InvalidateResets
<1>4. RequestsAreBegun'
  BY <1>1, <1>2, <1>3, NoneAssumption, AttemptsAssumption DEF IInv, TypeOK, Records, Challenges, Shapes, Is,
       Spent, InvalidateResets, RequestsAreBegun
<1>5. TokensAreIssued'
  BY <1>1, <1>2, <1>3, NoneAssumption, AttemptsAssumption DEF IInv, TypeOK, Records, Challenges, Shapes, Is,
       Spent, InvalidateResets, RequestsAreBegun, TokensAreIssued, Passed, Recovers, New
<1>6. LoginsAreFresh'
  BY <1>1, <1>2, <1>3, NoneAssumption, AttemptsAssumption DEF IInv, TypeOK, Records, Challenges, Shapes, Is,
       Spent, InvalidateResets, RequestsAreBegun, TokensAreIssued, LoginsAreFresh, LoginSteps
<1>7. ChallengesGiveOneSession'
  BY <1>1, <1>2, <1>3, NoneAssumption, AttemptsAssumption DEF IInv, TypeOK, Records, Challenges, Shapes, Is,
       Spent, InvalidateResets, RequestsAreBegun, TokensAreIssued, ChallengesGiveOneSession, Passed, New
<1>8. RecoveryTokensAreUsedOnce'
  BY <1>1, <1>2, <1>3, NoneAssumption, AttemptsAssumption DEF IInv, TypeOK, Records, Challenges, Shapes, Is,
       Spent, InvalidateResets, RequestsAreBegun, TokensAreIssued, RecoveryTokensAreUsedOnce, UsedOnce,
       Recovers, New
<1>9. StaleSessionsWereUnderWay'
  BY <1>1, <1>2, StaleStays, NoneAssumption DEF IInv, TypeOK, Records, Challenges, Shapes, Is, Halved,
       RequestsAreBegun, TokensAreIssued, New, InvalidateResets
<1>. QED BY <1>3, <1>4, <1>5, <1>6, <1>7, <1>8, <1>9 DEF IInv

LEMMA RevokeSessionsKeeps ==
    ASSUME IInv, NEW r \in Requests, RevokeSessions(r), UNCHANGED backend
    PROVE  IInv'
<1>. DEFINE n == [req[r] EXCEPT !.at = "done", !.answer = "changed"]
<1>1. n \in Shapes /\ Is(n, "done", req[r].user, req[r].password, req[r].token, req[r].late, "changed")
  BY EndShape DEF IInv, Steps, Answers
<1>2. req' = [req EXCEPT ![r] = n]
  BY NewShape DEF IInv, TypeOK, Records, Challenges, Shapes, RevokeSessions, Becomes, Goes, Ends,
       RequestsAreBegun
<1>. HIDE DEF n
<1>3. TypeOK'
  BY <1>1, <1>2, NoneAssumption DEF IInv, TypeOK, Records, Challenges, Shapes, RequestsAreBegun,
       RevokeSessions
<1>4. RequestsAreBegun'
  BY <1>1, <1>2, <1>3, NoneAssumption, AttemptsAssumption DEF IInv, TypeOK, Records, Challenges, Shapes, Is,
       Spent, RevokeSessions, RequestsAreBegun
<1>5. TokensAreIssued'
  BY <1>1, <1>2, <1>3, NoneAssumption, AttemptsAssumption DEF IInv, TypeOK, Records, Challenges, Shapes, Is,
       Spent, RevokeSessions, RequestsAreBegun, TokensAreIssued, Passed, Recovers, New
<1>6. LoginsAreFresh'
  BY <1>1, <1>2, <1>3, NoneAssumption, AttemptsAssumption DEF IInv, TypeOK, Records, Challenges, Shapes, Is,
       Spent, RevokeSessions, RequestsAreBegun, TokensAreIssued, LoginsAreFresh, LoginSteps
<1>7. ChallengesGiveOneSession'
  BY <1>1, <1>2, <1>3, NoneAssumption, AttemptsAssumption DEF IInv, TypeOK, Records, Challenges, Shapes, Is,
       Spent, RevokeSessions, RequestsAreBegun, TokensAreIssued, ChallengesGiveOneSession, Passed, New
<1>8. RecoveryTokensAreUsedOnce'
  BY <1>1, <1>2, <1>3, NoneAssumption, AttemptsAssumption DEF IInv, TypeOK, Records, Challenges, Shapes, Is,
       Spent, RevokeSessions, RequestsAreBegun, TokensAreIssued, RecoveryTokensAreUsedOnce, UsedOnce,
       Recovers, New
<1>9. StaleSessionsWereUnderWay'
  <2>. SUFFICES ASSUME NEW s \in sessions, req[s].user # req[r].user,
                       req[s].password \notin {None, users[req[s].user].password}, ~req[s].late
                PROVE  \E x \in Requests : req'[x].user = req[s].user /\ Halved(x)'
    BY <1>1, <1>2 DEF IInv, TypeOK, Records, Challenges, Shapes, StaleSessionsWereUnderWay, Halved,
         RevokeSessions, Is
  <2>1. PICK x \in Requests : req[x].user = req[s].user /\ Halved(x)
    BY DEF IInv, StaleSessionsWereUnderWay, Halved
  <2>2. req'[x] = req[x]
    BY <1>2, <2>1 DEF IInv, TypeOK
  <2>. QED BY <2>1, <2>2 DEF Halved
<1>. QED BY <1>3, <1>4, <1>5, <1>6, <1>7, <1>8, <1>9 DEF IInv

LEMMA BreakKeeps ==
    ASSUME IInv, NEW r \in Requests, Break(r), UNCHANGED backend
    PROVE  IInv'
<1>1. CASE req[r].at \in {"invalidate", "revoke"}
<2>. DEFINE n == [req[r] EXCEPT !.at = "done", !.answer = "half"]
<2>1. n \in Shapes /\ Is(n, "done", req[r].user, req[r].password, req[r].token, req[r].late, "half")
  BY <1>1, EndShape DEF IInv, Steps, Answers
<2>2. req' = [req EXCEPT ![r] = n]
  BY <1>1, NewShape DEF IInv, TypeOK, Records, Challenges, Shapes, Break, Becomes, Goes, Ends,
       RequestsAreBegun
<2>. HIDE DEF n
<2>3. TypeOK'
  BY <1>1, <2>1, <2>2, NoneAssumption DEF IInv, TypeOK, Records, Challenges, Shapes, RequestsAreBegun, Break
<2>4. RequestsAreBegun'
  BY <1>1, <2>1, <2>2, <2>3, NoneAssumption, AttemptsAssumption
     DEF IInv, TypeOK, Records, Challenges, Shapes, Is, Spent, Break, RequestsAreBegun
<2>5. TokensAreIssued'
  BY <1>1, <2>1, <2>2, <2>3, NoneAssumption, AttemptsAssumption
     DEF IInv, TypeOK, Records, Challenges, Shapes, Is, Spent, Break, RequestsAreBegun, TokensAreIssued,
       Passed, Recovers, New
<2>6. LoginsAreFresh'
  BY <1>1, <2>1, <2>2, <2>3, NoneAssumption, AttemptsAssumption
     DEF IInv, TypeOK, Records, Challenges, Shapes, Is, Spent, Break, RequestsAreBegun, TokensAreIssued,
       LoginsAreFresh, LoginSteps
<2>7. ChallengesGiveOneSession'
  BY <1>1, <2>1, <2>2, <2>3, NoneAssumption, AttemptsAssumption
     DEF IInv, TypeOK, Records, Challenges, Shapes, Is, Spent, Break, RequestsAreBegun, TokensAreIssued,
       ChallengesGiveOneSession, Passed, New
<2>8. RecoveryTokensAreUsedOnce'
  BY <1>1, <2>1, <2>2, <2>3, NoneAssumption, AttemptsAssumption
     DEF IInv, TypeOK, Records, Challenges, Shapes, Is, Spent, Break, RequestsAreBegun, TokensAreIssued,
       RecoveryTokensAreUsedOnce, UsedOnce, Recovers, New
<2>9. StaleSessionsWereUnderWay'
  BY <1>1, <2>1, <2>2, StaleStays, NoneAssumption DEF IInv, TypeOK, Records, Challenges, Shapes, Is, Halved,
       RequestsAreBegun, TokensAreIssued, New, Break
<2>. QED BY <2>3, <2>4, <2>5, <2>6, <2>7, <2>8, <2>9 DEF IInv
<1>2. CASE req[r].at \notin {"invalidate", "revoke"}
<2>. DEFINE n == [req[r] EXCEPT !.at = "done", !.answer = "failed"]
<2>1. n \in Shapes /\ Is(n, "done", req[r].user, req[r].password, req[r].token, req[r].late, "failed")
  BY <1>2, EndShape DEF IInv, Steps, Answers
<2>2. req' = [req EXCEPT ![r] = n]
  BY <1>2, NewShape DEF IInv, TypeOK, Records, Challenges, Shapes, Break, Becomes, Goes, Ends,
       RequestsAreBegun
<2>. HIDE DEF n
<2>3. TypeOK'
  BY <1>2, <2>1, <2>2, NoneAssumption DEF IInv, TypeOK, Records, Challenges, Shapes, RequestsAreBegun, Break
<2>4. RequestsAreBegun'
  BY <1>2, <2>1, <2>2, <2>3, NoneAssumption, AttemptsAssumption
     DEF IInv, TypeOK, Records, Challenges, Shapes, Is, Spent, Break, RequestsAreBegun
<2>5. TokensAreIssued'
  BY <1>2, <2>1, <2>2, <2>3, NoneAssumption, AttemptsAssumption
     DEF IInv, TypeOK, Records, Challenges, Shapes, Is, Spent, Break, RequestsAreBegun, TokensAreIssued,
       Passed, Recovers, New
<2>6. LoginsAreFresh'
  BY <1>2, <2>1, <2>2, <2>3, NoneAssumption, AttemptsAssumption
     DEF IInv, TypeOK, Records, Challenges, Shapes, Is, Spent, Break, RequestsAreBegun, TokensAreIssued,
       LoginsAreFresh, LoginSteps
<2>7. ChallengesGiveOneSession'
  BY <1>2, <2>1, <2>2, <2>3, NoneAssumption, AttemptsAssumption
     DEF IInv, TypeOK, Records, Challenges, Shapes, Is, Spent, Break, RequestsAreBegun, TokensAreIssued,
       ChallengesGiveOneSession, Passed, New
<2>8. RecoveryTokensAreUsedOnce'
  BY <1>2, <2>1, <2>2, <2>3, NoneAssumption, AttemptsAssumption
     DEF IInv, TypeOK, Records, Challenges, Shapes, Is, Spent, Break, RequestsAreBegun, TokensAreIssued,
       RecoveryTokensAreUsedOnce, UsedOnce, Recovers, New
<2>9. StaleSessionsWereUnderWay'
  BY <1>2, <2>1, <2>2, StaleStays, NoneAssumption DEF IInv, TypeOK, Records, Challenges, Shapes, Is, Halved,
       RequestsAreBegun, TokensAreIssued, New, Break
<2>. QED BY <2>3, <2>4, <2>5, <2>6, <2>7, <2>8, <2>9 DEF IInv
<1>. QED BY <1>1, <1>2 DEF Break

LEMMA EndSessionKeeps ==
    ASSUME IInv, NEW r \in Requests, EndSession(r), UNCHANGED backend
    PROVE  IInv'
<1>3. TypeOK'
  BY NoneAssumption DEF IInv, TypeOK, Records, Challenges, Shapes, RequestsAreBegun, EndSession
<1>4. RequestsAreBegun'
  BY <1>3, NoneAssumption, AttemptsAssumption DEF IInv, TypeOK, Records, Challenges, Shapes, Is, Spent,
       EndSession, RequestsAreBegun
<1>5. TokensAreIssued'
  BY <1>3, NoneAssumption, AttemptsAssumption DEF IInv, TypeOK, Records, Challenges, Shapes, Is, Spent,
       EndSession, RequestsAreBegun, TokensAreIssued, Passed, Recovers, New
<1>6. LoginsAreFresh'
  BY <1>3, NoneAssumption, AttemptsAssumption DEF IInv, TypeOK, Records, Challenges, Shapes, Is, Spent,
       EndSession, RequestsAreBegun, TokensAreIssued, LoginsAreFresh, LoginSteps
<1>7. ChallengesGiveOneSession'
  BY <1>3, NoneAssumption, AttemptsAssumption DEF IInv, TypeOK, Records, Challenges, Shapes, Is, Spent,
       EndSession, RequestsAreBegun, TokensAreIssued, ChallengesGiveOneSession, Passed, New
<1>8. RecoveryTokensAreUsedOnce'
  BY <1>3, NoneAssumption, AttemptsAssumption DEF IInv, TypeOK, Records, Challenges, Shapes, Is, Spent,
       EndSession, RequestsAreBegun, TokensAreIssued, RecoveryTokensAreUsedOnce, UsedOnce, Recovers, New
<1>9. StaleSessionsWereUnderWay'
  BY StaleStays, NoneAssumption DEF IInv, TypeOK, Records, Challenges, Shapes, Is, Halved, RequestsAreBegun,
       TokensAreIssued, New, EndSession
<1>. QED BY <1>3, <1>4, <1>5, <1>6, <1>7, <1>8, <1>9 DEF IInv

LEMMA ExpireChallengeKeeps ==
    ASSUME IInv, NEW r \in Requests, ExpireChallenge(r), UNCHANGED backend
    PROVE  IInv'
<1>3. TypeOK'
  BY NoneAssumption, OpenShape, FailedShape DEF IInv, TypeOK, Records, Challenges, Shapes, RequestsAreBegun,
       ExpireChallenge
<1>4. RequestsAreBegun'
  BY <1>3, NoneAssumption, AttemptsAssumption DEF IInv, TypeOK, Records, Challenges, Shapes, Is, Spent,
       ExpireChallenge, RequestsAreBegun
<1>5. TokensAreIssued'
  BY <1>3, NoneAssumption, AttemptsAssumption DEF IInv, TypeOK, Records, Challenges, Shapes, Is, Spent,
       ExpireChallenge, RequestsAreBegun, TokensAreIssued, Passed, Recovers, New
<1>6. LoginsAreFresh'
  BY <1>3, NoneAssumption, AttemptsAssumption DEF IInv, TypeOK, Records, Challenges, Shapes, Is, Spent,
       ExpireChallenge, RequestsAreBegun, TokensAreIssued, LoginsAreFresh, LoginSteps
<1>7. ChallengesGiveOneSession'
  BY <1>3, NoneAssumption, AttemptsAssumption DEF IInv, TypeOK, Records, Challenges, Shapes, Is, Spent,
       ExpireChallenge, RequestsAreBegun, TokensAreIssued, ChallengesGiveOneSession, Passed, New
<1>8. RecoveryTokensAreUsedOnce'
  BY <1>3, NoneAssumption, AttemptsAssumption DEF IInv, TypeOK, Records, Challenges, Shapes, Is, Spent,
       ExpireChallenge, RequestsAreBegun, TokensAreIssued, RecoveryTokensAreUsedOnce, UsedOnce, Recovers, New
<1>9. StaleSessionsWereUnderWay'
  BY StaleStays, NoneAssumption DEF IInv, TypeOK, Records, Challenges, Shapes, Is, Halved, RequestsAreBegun,
       TokensAreIssued, New, ExpireChallenge
<1>. QED BY <1>3, <1>4, <1>5, <1>6, <1>7, <1>8, <1>9 DEF IInv

LEMMA ExpireResetKeeps ==
    ASSUME IInv, NEW r \in Requests, ExpireReset(r), UNCHANGED backend
    PROVE  IInv'
<1>3. TypeOK'
  BY NoneAssumption DEF IInv, TypeOK, Records, Challenges, Shapes, RequestsAreBegun, ExpireReset
<1>4. RequestsAreBegun'
  BY <1>3, NoneAssumption, AttemptsAssumption DEF IInv, TypeOK, Records, Challenges, Shapes, Is, Spent,
       ExpireReset, RequestsAreBegun
<1>5. TokensAreIssued'
  BY <1>3, NoneAssumption, AttemptsAssumption DEF IInv, TypeOK, Records, Challenges, Shapes, Is, Spent,
       ExpireReset, RequestsAreBegun, TokensAreIssued, Passed, Recovers, New
<1>6. LoginsAreFresh'
  BY <1>3, NoneAssumption, AttemptsAssumption DEF IInv, TypeOK, Records, Challenges, Shapes, Is, Spent,
       ExpireReset, RequestsAreBegun, TokensAreIssued, LoginsAreFresh, LoginSteps
<1>7. ChallengesGiveOneSession'
  BY <1>3, NoneAssumption, AttemptsAssumption DEF IInv, TypeOK, Records, Challenges, Shapes, Is, Spent,
       ExpireReset, RequestsAreBegun, TokensAreIssued, ChallengesGiveOneSession, Passed, New
<1>8. RecoveryTokensAreUsedOnce'
  BY <1>3, NoneAssumption, AttemptsAssumption DEF IInv, TypeOK, Records, Challenges, Shapes, Is, Spent,
       ExpireReset, RequestsAreBegun, TokensAreIssued, RecoveryTokensAreUsedOnce, UsedOnce, Recovers, New
<1>9. StaleSessionsWereUnderWay'
  BY StaleStays, NoneAssumption DEF IInv, TypeOK, Records, Challenges, Shapes, Is, Halved, RequestsAreBegun,
       TokensAreIssued, New, ExpireReset
<1>. QED BY <1>3, <1>4, <1>5, <1>6, <1>7, <1>8, <1>9 DEF IInv

\* What Overtakes does to the requests it overtakes.
Alike(x) == /\ req'[x].at = req[x].at /\ req'[x].user = req[x].user
            /\ req'[x].password = req[x].password /\ req'[x].token = req[x].token
            /\ req'[x].answer = req[x].answer /\ (req[x].late => req'[x].late)

LEMMA LateShape ==
    ASSUME TypeOK, NEW x \in Requests, NEW B \in BOOLEAN, NEW n, n = [req[x] EXCEPT !.late = B]
    PROVE  /\ n \in Shapes
           /\ n.at = req[x].at /\ n.user = req[x].user /\ n.password = req[x].password
           /\ n.token = req[x].token /\ n.answer = req[x].answer
           /\ n.late <=> B
<1>1. req[x] \in Shapes
  BY DEF TypeOK, Shapes
<1>2. n \in Shapes /\ n.at = req[x].at /\ n.user = req[x].user /\ n.password = req[x].password
      /\ n.token = req[x].token /\ n.answer = req[x].answer
  BY <1>1 DEF Shapes
<1>3. n.late = B
  BY <1>1, Zenon DEF Shapes
<1>. QED BY <1>2, <1>3

LEMMA OvertakesShape ==
    ASSUME TypeOK, NEW r \in Requests, NEW record \in Shapes, NEW S, Overtakes(r, record, S)
    PROVE  /\ req' \in [Requests -> Shapes] /\ req'[r] = record
           /\ \A x \in Requests \ {r} : Alike(x) /\ (x \in S => req'[x].late)
           /\ \A x \in Requests \ {r} : x \notin S => (req'[x].late => req[x].late)
<1>0. req \in [Requests -> Shapes]
  BY DEF TypeOK, Shapes
<1>1. ASSUME NEW x \in Requests, x # r
      PROVE  req'[x] \in Shapes /\ Alike(x) /\ (req'[x].late <=> req[x].late \/ x \in S)
  <2>. DEFINE B == req[x].late \/ x \in S
  <2>1. req[x].late \in BOOLEAN
    BY <1>0 DEF Shapes
  <2>2. B \in BOOLEAN
    BY <2>1
  <2>3. req'[x] = [req[x] EXCEPT !.late = B]
    BY <1>1, <1>0 DEF Overtakes, Shapes
  <2>. HIDE DEF B
  <2>4. /\ req'[x] \in Shapes
        /\ req'[x].at = req[x].at /\ req'[x].user = req[x].user /\ req'[x].password = req[x].password
        /\ req'[x].token = req[x].token /\ req'[x].answer = req[x].answer
        /\ req'[x].late <=> B
    BY <2>2, <2>3, LateShape
  <2>. QED BY <2>4 DEF B, Alike
<1>2. req'[r] = record
  BY DEF Overtakes
<1>3. req' \in [Requests -> Shapes]
  BY <1>1, <1>2 DEF Overtakes
<1>. QED BY <1>1, <1>2, <1>3

LEMMA StorePasswordKeeps ==
    ASSUME IInv, NEW r \in Requests, StorePassword(r), UNCHANGED backend
    PROVE  IInv'
<1>. DEFINE n == [req[r] EXCEPT !.at = "invalidate"]
<1>1. n \in Shapes /\ Is(n, "invalidate", req[r].user, req[r].password, req[r].token, req[r].late, req[r].answer)
  BY GoShape DEF IInv, Steps
<1>. HIDE DEF n
<1>2. /\ req' \in [Requests -> Shapes] /\ req'[r] = n
      /\ \A x \in Requests \ {r} : Alike(x) /\ (x \in UnderWay(req[r].user) => req'[x].late)
  BY <1>1, OvertakesShape DEF IInv, StorePassword, n
<1>3. req[r].user \in Users /\ req[r].password \in Passwords /\ users' \in [Users -> Records]
  BY DEF IInv, TypeOK, RequestsAreBegun, StorePassword, Records
<1>4. users'[req[r].user].password = req[r].password
      /\ \A u \in Users : u # req[r].user => users'[u] = users[u]
  BY <1>3 DEF IInv, TypeOK, StorePassword, Records
<1>5. TypeOK'
  BY <1>2, <1>3 DEF IInv, TypeOK, Shapes, StorePassword
<1>6. RequestsAreBegun'
  <2>1. ASSUME NEW x \in Requests, req[x].at = "new" PROVE req'[x] = req[x]
    <3>1. x # r /\ ~challenges[x].open
      BY <2>1 DEF StorePassword, IInv, TokensAreIssued
    <3>2. x \notin UnderWay(req[r].user)
      BY <2>1, <3>1 DEF UnderWay, LoginSteps
    <3>3. req'[x] = [req[x] EXCEPT !.late = req[x].late]
      BY <3>1, <3>2 DEF StorePassword, Overtakes, IInv, TypeOK
    <3>. QED BY <3>3 DEF IInv, TypeOK
  <2>. QED BY <1>1, <1>2, <1>3, <2>1 DEF IInv, RequestsAreBegun, Is, Alike, StorePassword
<1>7. TokensAreIssued'
  BY <1>1, <1>2 DEF IInv, TypeOK, TokensAreIssued, RequestsAreBegun, Passed, Recovers, Is, Alike,
       StorePassword
<1>8. LoginsAreFresh'
  <2>. SUFFICES ASSUME NEW x \in Requests, req'[x].at \in LoginSteps \/ challenges[x].open
                PROVE  req'[x].late \/ req'[x].password \in {None, users'[req'[x].user].password}
    BY DEF LoginsAreFresh, StorePassword
  <2>1. x # r /\ (req[x].at \in LoginSteps \/ challenges[x].open)
    BY <1>1, <1>2 DEF Is, Alike, LoginSteps, IInv, TokensAreIssued, StorePassword
  <2>2. CASE req[x].user = req[r].user
    BY <1>2, <2>1, <2>2 DEF UnderWay
  <2>3. CASE req[x].user # req[r].user
    BY <1>2, <1>4, <2>1, <2>3 DEF IInv, LoginsAreFresh, LoginSteps, RequestsAreBegun, TokensAreIssued, Alike
  <2>. QED BY <2>2, <2>3
<1>9. ChallengesGiveOneSession'
  BY <1>1, <1>2 DEF IInv, TypeOK, ChallengesGiveOneSession, RequestsAreBegun, Passed, Spent, Is, Alike,
       StorePassword
<1>10. RecoveryTokensAreUsedOnce'
  BY <1>1, <1>2 DEF IInv, TypeOK, RecoveryTokensAreUsedOnce, UsedOnce, RequestsAreBegun, Recovers, Is, Alike,
       StorePassword
<1>11. StaleSessionsWereUnderWay'
  <2>. SUFFICES ASSUME NEW s \in sessions, req'[s].password \notin {None, users'[req'[s].user].password}, ~req'[s].late
                PROVE  \E x \in Requests : req'[x].user = req'[s].user /\ Halved(x)'
    BY DEF StaleSessionsWereUnderWay, Halved, StorePassword
  <2>1. s \in Requests \ {r} /\ Alike(s) /\ req[s].user \in Users
    BY <1>2 DEF IInv, TypeOK, TokensAreIssued, StorePassword
  <2>2. CASE req[s].user = req[r].user
    BY <1>1, <1>2, <2>1, <2>2 DEF Is, Halved, Alike
  <2>3. CASE req[s].user # req[r].user
    <3>1. PICK x \in Requests : req[x].user = req[s].user /\ Halved(x)
      BY <1>4, <2>1, <2>3 DEF IInv, StaleSessionsWereUnderWay, Halved, Alike
    <3>2. x # r /\ Alike(x)
      BY <1>2, <2>3, <3>1
    <3>. QED BY <2>1, <3>1, <3>2 DEF Halved, Alike
  <2>. QED BY <2>2, <2>3
<1>. QED BY <1>5, <1>6, <1>7, <1>8, <1>9, <1>10, <1>11 DEF IInv

LEMMA RehashKeeps ==
    ASSUME IInv, NEW r \in Requests, Rehash(r), UNCHANGED backend
    PROVE  IInv'
<1>. DEFINE u == req[r].user
            n == Admitted(req[r])
            S == IF users[u].password = req[r].password THEN {}
                 ELSE UnderWay(u) \cup {s \in sessions : req[s].user = u}
            at == IF req[r].totp THEN "challenge" ELSE "session"
<1>1. n \in Shapes /\ Is(n, at, req[r].user, req[r].password, None, req[r].late, "none") /\ at \in {"challenge", "session"}
  <2>1. at \in Steps /\ n = [req[r] EXCEPT !.at = at]
    BY DEF Admitted, Steps
  <2>2. req[r].token = None /\ req[r].answer = "none"
    BY DEF IInv, RequestsAreBegun, Rehash
  <2>. HIDE DEF n
  <2>3. n \in Shapes /\ Is(n, at, req[r].user, req[r].password, req[r].token, req[r].late, req[r].answer)
    BY <2>1, GoShape DEF IInv
  <2>. QED BY <2>2, <2>3
<1>0. Overtakes(r, n, S)
  BY DEF Rehash
<1>. HIDE DEF n, at
<1>2. /\ req' \in [Requests -> Shapes] /\ req'[r] = n
      /\ \A x \in Requests \ {r} : Alike(x) /\ (x \in S => req'[x].late)
  BY <1>0, <1>1, OvertakesShape DEF IInv
<1>3. u \in Users /\ req[r].password \in Passwords /\ users' \in [Users -> Records]
  BY DEF IInv, TypeOK, RequestsAreBegun, Rehash, Records
<1>4. users'[u].password = req[r].password
      /\ \A v \in Users : v # u => users'[v] = users[v]
  BY <1>3 DEF IInv, TypeOK, Rehash, Records
<1>5. TypeOK'
  BY <1>2, <1>3 DEF IInv, TypeOK, Shapes, Rehash
<1>6. RequestsAreBegun'
  <2>1. ASSUME NEW x \in Requests, req[x].at = "new" PROVE req'[x] = req[x]
    <3>1. x # r /\ ~challenges[x].open /\ x \notin sessions
      BY <2>1 DEF Rehash, IInv, TokensAreIssued
    <3>2. x \notin S
      BY <2>1, <3>1 DEF UnderWay, LoginSteps
    <3>. HIDE DEF S
    <3>3. req'[x] = [req[x] EXCEPT !.late = req[x].late]
      BY <1>0, <3>1, <3>2 DEF Overtakes, IInv, TypeOK
    <3>. QED BY <3>3 DEF IInv, TypeOK
  <2>. QED BY <1>1, <1>2, <1>3, <2>1 DEF IInv, RequestsAreBegun, Is, Alike, Rehash
<1>. HIDE DEF u
<1>7. TokensAreIssued'
  <2>1. /\ req'[r].token = None /\ None \notin Requests /\ req'[r].at \in {"challenge", "session"}
        /\ req'[r].answer = "none" /\ req'[r].user = req[r].user
    BY <1>1, <1>2, NoneAssumption DEF Is
  <2>2. req[r].at = "rehash" /\ req[r].answer = "none" /\ UNCHANGED <<challenges, resets, sessions>>
    BY DEF IInv, RequestsAreBegun, Rehash
  <2>. QED BY <1>2, <2>1, <2>2 DEF IInv, TypeOK, TokensAreIssued, Passed, Recovers, Alike
<1>8. LoginsAreFresh'
  <2>. SUFFICES ASSUME NEW x \in Requests, req'[x].at \in LoginSteps \/ challenges[x].open
                PROVE  req'[x].late \/ req'[x].password \in {None, users'[req'[x].user].password}
    BY DEF LoginsAreFresh, Rehash
  <2>1. CASE x = r
    BY <1>1, <1>2, <1>4, <2>1 DEF Is, u
  <2>2. ASSUME x # r PROVE req[x].at \in LoginSteps \/ challenges[x].open
    BY <1>2, <2>2 DEF Alike
  <2>3. CASE x # r /\ (req[x].user # u \/ users[u].password = req[r].password)
    <3>1. users'[req[x].user].password = users[req[x].user].password
      BY <1>4, <2>2, <2>3 DEF IInv, RequestsAreBegun, TokensAreIssued, LoginSteps
    <3>. QED BY <1>2, <2>2, <2>3, <3>1 DEF IInv, LoginsAreFresh, Alike
  <2>4. CASE x # r /\ req[x].user = u /\ users[u].password # req[r].password
    <3>1. x \in S
      BY <2>2, <2>4 DEF UnderWay
    <3>. QED BY <1>2, <2>4, <3>1
  <2>. QED BY <2>1, <2>3, <2>4
<1>9. ChallengesGiveOneSession'
  BY <1>1, <1>2, NoneAssumption DEF IInv, TypeOK, ChallengesGiveOneSession, RequestsAreBegun, Passed, Spent,
       Is, Alike, Rehash
<1>10. RecoveryTokensAreUsedOnce'
  BY <1>1, <1>2, NoneAssumption DEF IInv, TypeOK, RecoveryTokensAreUsedOnce, UsedOnce, RequestsAreBegun,
       Recovers, Is, Alike, Rehash
<1>11. StaleSessionsWereUnderWay'
  <2>. SUFFICES ASSUME NEW s \in sessions, req'[s].password \notin {None, users'[req'[s].user].password}, ~req'[s].late
                PROVE  \E x \in Requests : req'[x].user = req'[s].user /\ Halved(x)'
    BY DEF StaleSessionsWereUnderWay, Halved, Rehash
  <2>1. s \in Requests \ {r} /\ Alike(s) /\ req[s].user \in Users
    BY <1>2 DEF IInv, TypeOK, TokensAreIssued, Rehash
  <2>2. req[s].user # u \/ users[u].password = req[r].password
    BY <1>2, <2>1
  <2>3. users'[req[s].user].password = users[req[s].user].password
    BY <1>4, <2>1, <2>2
  <2>4. PICK x \in Requests : req[x].user = req[s].user /\ Halved(x)
    BY <2>1, <2>3 DEF IInv, StaleSessionsWereUnderWay, Halved, Alike
  <2>5. x # r /\ Alike(x)
    BY <1>2, <2>4 DEF Halved, Rehash, IInv, RequestsAreBegun
  <2>. QED BY <2>1, <2>4, <2>5 DEF Halved, Alike
<1>. QED BY <1>5, <1>6, <1>7, <1>8, <1>9, <1>10, <1>11 DEF IInv

----------------------------------------------------------------------------
(* What passwords do between settled states, and the theorems *)

\* Nothing that Settled looks at gets worse.
Calm == /\ \A u \in Users : users'[u].password = users[u].password /\ (users'[u].legacy => users[u].legacy)
        /\ \A x \in Requests : req'[x].at = "rehash" => req[x].at = "rehash" /\ req'[x].user = req[x].user

LEMMA BeginsCalm ==
    ASSUME IInv, NEW r \in Requests, Begin(r), ~ \E u \in Users, p \in Passwords : Login(r, u, p)
    PROVE  Calm
<1>. USE DEF IInv, TypeOK, Calm, Becomes, Ends
<1>1. CASE \E u \in Users : OAuthLogin(r, u)
  BY <1>1 DEF OAuthLogin, Admitted, New
<1>2. CASE \E u \in Users : AskRecovery(r, u)
  BY <1>2 DEF AskRecovery, New
<1>3. CASE \E u \in Users, totp \in BOOLEAN : SetTotp(r, u, totp)
  BY <1>3 DEF SetTotp, Records
<1>4. CASE \E u \in Users, p, q \in Passwords, right \in BOOLEAN : Change(r, u, p, right, q)
  <2>1. PICK u \in Users, p \in Passwords, q \in Passwords, right \in BOOLEAN : Change(r, u, p, right, q)
    BY <1>4
  <2>2. users' = users /\ req'[r].at # "rehash" /\ \A x \in Requests \ {r} : req'[x] = req[x]
    <3>1. CASE p = users[u].password /\ (users[u].totp => right)
      BY <2>1, <3>1 DEF Change, New
    <3>2. CASE ~(p = users[u].password /\ (users[u].totp => right))
      BY <2>1, <3>2 DEF Change
    <3>. QED BY <3>1, <3>2
  <2>. QED BY <2>2
<1>5. CASE \E x \in Requests : BeginFactor(r, x)
  BY <1>5 DEF BeginFactor
<1>6. CASE \E x \in Requests, p \in Passwords : Recover(r, x, p)
  <2>1. PICK t \in Requests, p \in Passwords : Recover(r, t, p)
    BY <1>6
  <2>2. users' = users /\ req'[r].at # "rehash" /\ \A x \in Requests \ {r} : req'[x] = req[x]
    <3>1. CASE resets[t] # "open"
      BY <2>1, <3>1 DEF Recover
    <3>2. CASE resets[t] = "open" /\ backend = "d1"
      BY <2>1, <3>2 DEF Recover, New
    <3>3. CASE resets[t] = "open" /\ backend # "d1"
      BY <2>1, <3>3 DEF Recover, New
    <3>. QED BY <3>1, <3>2, <3>3
  <2>. QED BY <2>2
<1>. QED BY <1>1, <1>2, <1>3, <1>4, <1>5, <1>6 DEF Begin

LEMMA ContinuesCalm ==
    ASSUME IInv, NEW r \in Requests, Continue(r), ~Rehash(r), ~StorePassword(r)
    PROVE  Calm
<1>. USE DEF IInv, TypeOK, Calm, Goes, Ends
<1>1. CASE IssueChallenge(r)
  BY <1>1 DEF IssueChallenge
<1>2. CASE CreateSession(r)
  BY <1>2 DEF CreateSession
<1>3. CASE \E right \in BOOLEAN : JudgeCode(r, right)
  BY <1>3 DEF JudgeCode
<1>4. CASE RecordFailure(r)
  BY <1>4 DEF RecordFailure
<1>5. CASE Consume(r)
  BY <1>5 DEF Consume
<1>6. CASE Discard(r)
  BY <1>6 DEF Discard
<1>7. CASE Mailed(r) \/ NotMailed(r)
  BY <1>7 DEF Mailed, NotMailed
<1>8. CASE MarkUsed(r)
  BY <1>8 DEF MarkUsed
<1>9. CASE InvalidateResets(r) \/ RevokeSessions(r)
  BY <1>9 DEF InvalidateResets, RevokeSessions
<1>. QED BY <1>1, <1>2, <1>3, <1>4, <1>5, <1>6, <1>7, <1>8, <1>9 DEF Continue

\* The stored password of an account moves only in the two actions that write it.
LEMMA SettledStep ==
    ASSUME IInv, [Next]_vars, NEW u \in Users, Settled(u)
    PROVE  /\ Settled(u)'
           /\ users'[u].password # users[u].password =>
                \E r \in Requests : req[r].at = "store" /\ req[r].user = u
<1>1. ASSUME Calm
      PROVE  Settled(u)' /\ users'[u].password = users[u].password
  BY <1>1 DEF Calm, Settled
<1>2. CASE UNCHANGED vars
  BY <1>2, <1>1 DEF Calm, vars
<1>3. ASSUME NEW r \in Requests, NEW v \in Users, NEW p \in Passwords, Login(r, v, p)
      PROVE  Settled(u)' /\ users'[u].password = users[u].password
  <2>. DEFINE l == [New EXCEPT !.user = v, !.password = p, !.totp = users[v].totp]
  <2>0. l \in Shapes
    BY LoginShape DEF IInv, TypeOK
  <2>4. l.user = v
    BY DEF New
  <2>5. req'[r].at = "rehash" => req'[r].user # u
    <3>1. CASE users[v].password # p
      BY <1>3, <3>1 DEF Login, Ends, IInv, TypeOK
    <3>2. CASE users[v].password = p /\ users[v].legacy
      <4>1. req' = [req EXCEPT ![r] = [l EXCEPT !.at = "rehash"]] /\ v # u
        BY <1>3, <3>2 DEF Login, Becomes, Settled
      <4>. HIDE DEF l
      <4>. QED BY <2>0, <2>4, <4>1 DEF Shapes, IInv, TypeOK
    <3>3. CASE users[v].password = p /\ ~users[v].legacy
      <4>1. req' = [req EXCEPT ![r] = Admitted(l)]
        BY <1>3, <3>3 DEF Login, Becomes
      <4>. HIDE DEF l
      <4>. QED BY <2>0, <4>1 DEF Shapes, IInv, TypeOK, Admitted
    <3>. QED BY <3>1, <3>2, <3>3
  <2>3. users' = users /\ \A x \in Requests \ {r} : req'[x] = req[x]
    BY <1>3 DEF Login, Becomes, Ends, IInv, TypeOK
  <2>. QED BY <2>5, <2>3 DEF Settled
<1>4. ASSUME NEW r \in Requests, Rehash(r)
      PROVE  Settled(u)' /\ users'[u].password = users[u].password
  <2>. DEFINE S == IF users[req[r].user].password = req[r].password THEN {}
                   ELSE UnderWay(req[r].user) \cup {s \in sessions : req[s].user = req[r].user}
              at == IF req[r].totp THEN "challenge" ELSE "session"
              n == Admitted(req[r])
  <2>1. at \in Steps /\ n = [req[r] EXCEPT !.at = at]
    BY DEF Admitted, Steps
  <2>2. Overtakes(r, n, S)
    BY <1>4 DEF Rehash
  <2>. HIDE DEF S, n
  <2>3. n \in Shapes /\ n.at = at
    BY <2>1, GoShape DEF IInv, Is
  <2>4. req'[r].at # "rehash" /\ \A x \in Requests \ {r} : Alike(x)
    BY <2>2, <2>3, OvertakesShape DEF IInv
  <2>5. req[r].user # u /\ users'[u] = users[u]
    BY <1>4 DEF Rehash, Settled, IInv, TypeOK
  <2>. QED BY <2>4, <2>5 DEF Settled, Alike
<1>5. ASSUME NEW r \in Requests, StorePassword(r)
      PROVE  Settled(u)' /\ (users'[u].password # users[u].password => req[r].at = "store" /\ req[r].user = u)
  <2>. DEFINE n == [req[r] EXCEPT !.at = "invalidate"]
  <2>1. n \in Shapes /\ n.at = "invalidate"
    BY GoShape DEF IInv, Steps, Is
  <2>2. Overtakes(r, n, UnderWay(req[r].user))
    BY <1>5 DEF StorePassword
  <2>. HIDE DEF n
  <2>3. req'[r].at # "rehash" /\ \A x \in Requests \ {r} : Alike(x)
    BY <2>1, <2>2, OvertakesShape DEF IInv
  <2>4. ~users'[u].legacy /\ (req[r].user # u => users'[u] = users[u])
    BY <1>5 DEF StorePassword, Settled, IInv, TypeOK, Records
  <2>. QED BY <1>5, <2>3, <2>4 DEF Settled, Alike, StorePassword
<1>6. CASE \E r \in Requests : Break(r) \/ EndSession(r) \/ ExpireChallenge(r) \/ ExpireReset(r)
  BY <1>6, <1>1 DEF Calm, Break, EndSession, ExpireChallenge, ExpireReset, Ends, IInv, TypeOK
<1>. QED BY <1>1, <1>2, <1>3, <1>4, <1>5, <1>6, BeginsCalm, ContinuesCalm DEF Next

LEMMA InitHolds == Init => IInv
<1>. SUFFICES ASSUME Init PROVE IInv
  OBVIOUS
<1>1. req \in [Requests -> Shapes] /\ \A r \in Requests : req[r] = New
  BY NewShape DEF Init
<1>2. TypeOK
  BY <1>1 DEF Init, TypeOK, Shapes, Challenges
<1>3. RequestsAreBegun
  BY <1>1, NewShape DEF RequestsAreBegun, Is
<1>4. TokensAreIssued
  BY <1>1, NewShape, NoneAssumption DEF Init, TokensAreIssued, Is, Passed, Recovers
<1>5. LoginsAreFresh
  BY <1>1, NewShape DEF Init, LoginsAreFresh, LoginSteps, Is
<1>6. ChallengesGiveOneSession /\ RecoveryTokensAreUsedOnce
  BY <1>1, NewShape, NoneAssumption DEF ChallengesGiveOneSession, RecoveryTokensAreUsedOnce, UsedOnce, Passed,
       Recovers, Is
<1>7. StaleSessionsWereUnderWay
  BY DEF Init, StaleSessionsWereUnderWay
<1>. QED BY <1>2, <1>3, <1>4, <1>5, <1>6, <1>7 DEF IInv

LEMMA StepKeeps == IInv /\ [Next]_vars => IInv'
<1>. SUFFICES ASSUME IInv, [Next]_vars PROVE IInv'
  OBVIOUS
<1>1. CASE UNCHANGED vars
  BY <1>1 DEF vars, IInv, TypeOK, RequestsAreBegun, TokensAreIssued, LoginsAreFresh, ChallengesGiveOneSession,
     RecoveryTokensAreUsedOnce, StaleSessionsWereUnderWay, Passed, Recovers, UsedOnce, Spent
<1>2. ASSUME NEW r \in Requests, Begin(r), UNCHANGED backend PROVE IInv'
  BY <1>2, LoginKeeps, OAuthLoginKeeps, AskRecoveryKeeps, SetTotpKeeps, ChangeKeeps, BeginFactorKeeps, RecoverKeeps
  DEF Begin
<1>3. ASSUME NEW r \in Requests, Continue(r), UNCHANGED backend PROVE IInv'
  BY <1>3, RehashKeeps, IssueChallengeKeeps, CreateSessionKeeps, JudgeCodeKeeps, RecordFailureKeeps, ConsumeKeeps,
     DiscardKeeps, MailedKeeps, NotMailedKeeps, MarkUsedKeeps, StorePasswordKeeps, InvalidateResetsKeeps, RevokeSessionsKeeps
  DEF Continue
<1>4. ASSUME NEW r \in Requests, UNCHANGED backend,
             Break(r) \/ EndSession(r) \/ ExpireChallenge(r) \/ ExpireReset(r)
      PROVE  IInv'
  BY <1>4, BreakKeeps, EndSessionKeeps, ExpireChallengeKeeps, ExpireResetKeeps
<1>. QED BY <1>1, <1>2, <1>3, <1>4 DEF Next

\* For every number of users, passwords and requests, on both stores: the invariant
\* that says how far each request has come and what it may still rely on.
THEOREM Invariance == Spec => []IInv
  BY InitHolds, StepKeeps, PTL DEF Spec

\* Whatever requests answer a challenge at once, one at most gets a session.
THEOREM ChallengesCorrect == Spec => []ChallengesGiveOneSession
  BY Invariance, PTL DEF IInv

\* On SQLite a recovery token changes a password once.
THEOREM RecoveryCorrect == Spec => []RecoveryTokensAreUsedOnce
  BY Invariance, PTL DEF IInv

\* Only logins that were under way outlive a change of the password.
THEOREM StaleCorrect == Spec => []StaleSessionsWereUnderWay
  BY Invariance, PTL DEF IInv

\* Once no hash of an account is left to migrate, its password moves only by a
\* change or a recovery.
THEOREM SettledCorrect == Spec => SettledPasswordsStay
<1>1. IInv /\ [Next]_vars =>
        [\A u \in Users : Settled(u) =>
          /\ Settled(u)'
          /\ users'[u].password # users[u].password =>
              \E r \in Requests : req[r].at = "store" /\ req[r].user = u]_vars
  BY SettledStep
<1>. QED BY <1>1, Invariance, PTL DEF Spec, SettledPasswordsStay
----------------------------------------------------------------------------
(* Second factors: what a request keeps, and what it begins with *)

\* What the second factor of a login is judged by stays as it was.
Same(x) == /\ req'[x].user = req[x].user /\ req'[x].password = req[x].password
           /\ req'[x].token = req[x].token /\ req'[x].totp = req[x].totp

InFactor(x) == req[x].at \in {"factor", "failure", "consume"}

\* Request x goes on, and gets a session only where the code gives one.
Held(x) == /\ Same(x)
           /\ Granted(x)' => Granted(x) \/ req[x].at = "consume" \/ (req[x].at = "rehash" /\ ~req[x].totp)
           /\ InFactor(x)' => InFactor(x)

\* Request x begins: without a challenge, or for the login that was asked for it.
BegunAlone(x) == /\ req[x].at = "new" /\ ~InFactor(x)'
                 /\ Granted(x)' => req'[x].token = None /\ ~req'[x].totp
BegunFor(x, c) == /\ req[x].at = "new" /\ ~Granted(x)' /\ req[c].answer = "mfa"
                  /\ req'[x].token = c /\ req'[x].user = req[c].user /\ req'[x].password = req[c].password

Carries == \A x \in Requests : \/ Held(x) \/ BegunAlone(x)
                               \/ \E c \in Requests : BegunFor(x, c)

LEMMA UntouchedIsHeld ==
    ASSUME NEW x \in Requests, req'[x] = req[x]
    PROVE  Held(x)
  BY DEF Held, Same, Granted, InFactor

\* An end or a step of a request changes nothing else of it.
LEMMA FieldsStay ==
    ASSUME TypeOK, NEW r \in Requests, NEW at \in Steps, NEW answer \in Answers,
           \/ req' = [req EXCEPT ![r] = [req[r] EXCEPT !.at = at, !.answer = answer]]
           \/ req' = [req EXCEPT ![r] = [req[r] EXCEPT !.at = at]] /\ answer = req[r].answer
    PROVE  /\ Same(r) /\ req'[r].at = at /\ req'[r].answer = answer
           /\ \A x \in Requests \ {r} : Held(x)
<1>1. req \in [Requests -> Shapes] /\ req[r] \in Shapes
  BY DEF TypeOK, Shapes
<1>2. \A x \in Requests \ {r} : Held(x)
  BY <1>1, UntouchedIsHeld
<1>3. \/ req'[r] = [req[r] EXCEPT !.at = at, !.answer = answer]
      \/ req'[r] = [req[r] EXCEPT !.at = at] /\ answer = req[r].answer
  BY <1>1
<1>4. /\ req'[r].user = req[r].user /\ req'[r].password = req[r].password
      /\ req'[r].token = req[r].token /\ req'[r].at = at /\ req'[r].answer = answer
  BY <1>1, <1>3 DEF Shapes
<1>5. req'[r].totp = req[r].totp
  BY <1>1, <1>3, Zenon DEF Shapes
<1>. QED BY <1>2, <1>4, <1>5 DEF Same

LEMMA EndsCarries ==
    ASSUME IInv, NEW r \in Requests, NEW answer \in Answers, Ends(r, answer),
           answer = "session" => req[r].at = "session"
    PROVE  Carries
<1>1. req' = [req EXCEPT ![r] = [req[r] EXCEPT !.at = "done", !.answer = answer]]
  BY DEF Ends, IInv, TypeOK
<1>2. Same(r) /\ req'[r].at = "done" /\ req'[r].answer = answer /\ \A x \in Requests \ {r} : Held(x)
  BY <1>1, FieldsStay DEF IInv, Steps
<1>3. Held(r)
  BY <1>2 DEF Held, Granted, InFactor
<1>. QED BY <1>2, <1>3 DEF Carries

LEMMA GoesCarries ==
    ASSUME IInv, NEW r \in Requests, NEW at \in Steps, Goes(r, at),
           at = "session" => req[r].at = "consume",
           at \in {"factor", "failure", "consume"} => InFactor(r)
    PROVE  Carries
<1>0. req[r].answer \in Answers
  BY DEF IInv, TypeOK
<1>1. req' = [req EXCEPT ![r] = [req[r] EXCEPT !.at = at]]
  BY DEF Goes, IInv, TypeOK
<1>2. Same(r) /\ req'[r].at = at /\ req'[r].answer = req[r].answer /\ \A x \in Requests \ {r} : Held(x)
  BY <1>0, <1>1, FieldsStay DEF IInv
<1>3. Held(r)
  BY <1>2 DEF Held, Granted, InFactor
<1>. QED BY <1>2, <1>3 DEF Carries

\* A request that begins as a record of its own.
LEMMA BecomesCarries ==
    ASSUME IInv, NEW r \in Requests, NEW n, req' = [req EXCEPT ![r] = n], req[r].at = "new",
           \/ /\ n.at \notin {"factor", "failure", "consume"}
              /\ n.at = "session" \/ n.answer = "session" => n.token = None /\ ~n.totp
           \/ \E c \in Requests : /\ n.at # "session" /\ n.answer # "session" /\ req[c].answer = "mfa"
                                  /\ n.token = c /\ n.user = req[c].user /\ n.password = req[c].password
    PROVE  Carries
<1>1. req'[r] = n /\ \A x \in Requests \ {r} : req'[x] = req[x]
  BY DEF IInv, TypeOK
<1>2. BegunAlone(r) \/ \E c \in Requests : BegunFor(r, c)
  BY <1>1 DEF BegunAlone, BegunFor, Granted, InFactor
<1>. QED BY <1>1, <1>2, UntouchedIsHeld DEF Carries

\* A login goes to its challenge when the record it read has a second factor.
LEMMA AdmittedFields ==
    ASSUME NEW l \in Shapes
    PROVE  /\ Admitted(l).at \in {"challenge", "session"} /\ Admitted(l).answer = l.answer
           /\ Admitted(l).token = l.token /\ Admitted(l).user = l.user /\ Admitted(l).password = l.password
           /\ Admitted(l).totp = l.totp
           /\ Admitted(l).at = "session" => ~l.totp
<1>1. /\ Admitted(l).at \in {"challenge", "session"} /\ Admitted(l).answer = l.answer
      /\ Admitted(l).token = l.token /\ Admitted(l).user = l.user /\ Admitted(l).password = l.password
      /\ Admitted(l).at = "session" => ~l.totp
  BY DEF Admitted, Shapes
<1>2. Admitted(l).totp = l.totp
  BY Zenon DEF Admitted, Shapes
<1>. QED BY <1>1, <1>2

\* Overtaking marks others as late and changes nothing else of them.
LEMMA OvertakesHolds ==
    ASSUME TypeOK, NEW r \in Requests, NEW n, NEW S, Overtakes(r, n, S)
    PROVE  req'[r] = n /\ \A x \in Requests \ {r} : Held(x)
<1>1. req \in [Requests -> Shapes]
  BY DEF TypeOK, Shapes
<1>2. ASSUME NEW x \in Requests \ {r} PROVE Held(x)
  <2>. DEFINE B == req[x].late \/ x \in S
  <2>1. req'[x] = [req[x] EXCEPT !.late = B] /\ req[x] \in Shapes
    BY <1>1 DEF Overtakes, Shapes
  <2>. HIDE DEF B
  <2>2. /\ req'[x].at = req[x].at /\ req'[x].user = req[x].user /\ req'[x].password = req[x].password
        /\ req'[x].token = req[x].token /\ req'[x].answer = req[x].answer
    BY <2>1 DEF Shapes
  <2>3. req'[x].totp = req[x].totp
    BY <2>1, Zenon DEF Shapes
  <2>. QED BY <2>2, <2>3 DEF Held, Same, Granted, InFactor
<1>. QED BY <1>2 DEF Overtakes

----------------------------------------------------------------------------
(* Each action carries the second factors *)

LEMMA LoginCarries ==
    ASSUME IInv, NEW r \in Requests, NEW u \in Users, NEW p \in Passwords, Login(r, u, p)
    PROVE  Carries
<1>. DEFINE l == [New EXCEPT !.user = u, !.password = p, !.totp = users[u].totp]
<1>1. l \in Shapes /\ l.token = None /\ l.answer = "none"
  BY LoginShape, NewShape DEF IInv, TypeOK, New
<1>2. CASE users[u].password # p
  BY <1>2, EndsCarries DEF Login, Answers
<1>3. CASE users[u].password = p /\ users[u].legacy
  <2>1. req' = [req EXCEPT ![r] = [l EXCEPT !.at = "rehash"]] /\ req[r].at = "new"
    BY <1>3 DEF Login, Becomes
  <2>. HIDE DEF l
  <2>2. [l EXCEPT !.at = "rehash"].at = "rehash" /\ [l EXCEPT !.at = "rehash"].answer = "none"
    BY <1>1 DEF Shapes
  <2>. QED BY <2>1, <2>2, BecomesCarries
<1>4. CASE users[u].password = p /\ ~users[u].legacy
  <2>1. req' = [req EXCEPT ![r] = Admitted(l)] /\ req[r].at = "new"
    BY <1>4 DEF Login, Becomes
  <2>. HIDE DEF l
  <2>2. /\ Admitted(l).at \in {"challenge", "session"} /\ Admitted(l).answer = "none"
        /\ Admitted(l).token = None
        /\ Admitted(l).at = "session" => ~Admitted(l).totp
    BY <1>1, AdmittedFields
  <2>. QED BY <2>1, <2>2, BecomesCarries
<1>. QED BY <1>2, <1>3, <1>4

LEMMA OAuthLoginCarries ==
    ASSUME IInv, NEW r \in Requests, NEW u \in Users, OAuthLogin(r, u)
    PROVE  Carries
<1>. DEFINE l == [New EXCEPT !.user = u, !.totp = users[u].totp]
<1>1. l \in Shapes /\ l.token = None /\ l.answer = "none"
  BY NewShape DEF IInv, TypeOK, New, Shapes, Records
<1>2. req' = [req EXCEPT ![r] = Admitted(l)] /\ req[r].at = "new"
  BY DEF OAuthLogin, Becomes
<1>. HIDE DEF l
<1>3. /\ Admitted(l).at \in {"challenge", "session"} /\ Admitted(l).answer = "none"
      /\ Admitted(l).token = None
      /\ Admitted(l).at = "session" => ~Admitted(l).totp
  BY <1>1, AdmittedFields
<1>. QED BY <1>2, <1>3, BecomesCarries

LEMMA RehashCarries ==
    ASSUME IInv, NEW r \in Requests, Rehash(r)
    PROVE  Carries
<1>. DEFINE S == IF users[req[r].user].password = req[r].password THEN {}
                 ELSE UnderWay(req[r].user) \cup {s \in sessions : req[s].user = req[r].user}
<1>1. Overtakes(r, Admitted(req[r]), S) /\ req[r].at = "rehash"
  BY DEF Rehash
<1>. HIDE DEF S
<1>2. req'[r] = Admitted(req[r]) /\ \A x \in Requests \ {r} : Held(x)
  BY <1>1, OvertakesHolds DEF IInv
<1>3. req[r] \in Shapes /\ req[r].answer = "none"
  BY <1>1 DEF IInv, TypeOK, Shapes, RequestsAreBegun
<1>4. Held(r)
  BY <1>1, <1>2, <1>3, AdmittedFields DEF Held, Same, Granted, InFactor
<1>. QED BY <1>2, <1>4 DEF Carries

LEMMA StorePasswordCarries ==
    ASSUME IInv, NEW r \in Requests, StorePassword(r)
    PROVE  Carries
<1>1. Overtakes(r, [req[r] EXCEPT !.at = "invalidate"], UnderWay(req[r].user)) /\ req[r].at = "store"
  BY DEF StorePassword
<1>2. req'[r] = [req[r] EXCEPT !.at = "invalidate"] /\ \A x \in Requests \ {r} : Held(x)
  BY <1>1, OvertakesHolds DEF IInv
<1>3. req[r] \in Shapes
  BY DEF IInv, TypeOK, Shapes
<1>4. /\ req'[r].user = req[r].user /\ req'[r].password = req[r].password
      /\ req'[r].token = req[r].token /\ req'[r].at = "invalidate" /\ req'[r].answer = req[r].answer
  BY <1>2, <1>3 DEF Shapes
<1>5. req'[r].totp = req[r].totp
  BY <1>2, <1>3, Zenon DEF Shapes
<1>6. Held(r)
  BY <1>4, <1>5 DEF Held, Same, Granted, InFactor
<1>. QED BY <1>2, <1>6 DEF Carries

LEMMA BeginFactorCarries ==
    ASSUME IInv, NEW r \in Requests, NEW c \in Requests, BeginFactor(r, c)
    PROVE  Carries
<1>. DEFINE at == IF challenges[c].open /\ ~Spent(c) THEN "factor" ELSE "discard"
            n == [req[c] EXCEPT !.token = c, !.answer = "none", !.at = at]
<1>1. req' = [req EXCEPT ![r] = n] /\ req[r].at = "new" /\ req[c].answer = "mfa"
  BY DEF BeginFactor, Becomes
<1>2. n = [req[c] EXCEPT !.token = c, !.answer = "none", !.at = at] /\ at \in Steps /\ at # "session"
  BY DEF Steps
<1>. HIDE DEF n, at
<1>3. Is(n, at, req[c].user, req[c].password, c, req[c].late, "none")
  BY <1>2, FactorShape DEF IInv
<1>. QED BY <1>1, <1>2, <1>3, BecomesCarries DEF Is

LEMMA RecoverCarries ==
    ASSUME IInv, NEW r \in Requests, NEW t \in Requests, NEW p \in Passwords, Recover(r, t, p)
    PROVE  Carries
<1>. DEFINE found == [New EXCEPT !.user = req[t].user, !.password = p, !.token = t]
<1>1. CASE resets[t] # "open"
  BY <1>1, EndsCarries DEF Recover, Answers
<1>2. CASE resets[t] = "open" /\ backend = "d1"
  <2>1. req' = [req EXCEPT ![r] = [found EXCEPT !.at = "mark"]] /\ req[r].at = "new"
    BY <1>2 DEF Recover, Becomes
  <2>2. [found EXCEPT !.at = "mark"].at = "mark" /\ [found EXCEPT !.at = "mark"].answer = "none"
    BY DEF New
  <2>. QED BY <2>1, <2>2, BecomesCarries
<1>3. CASE resets[t] = "open" /\ backend # "d1"
  <2>1. req' = [req EXCEPT ![r] = [found EXCEPT !.at = "store"]] /\ req[r].at = "new"
    BY <1>3 DEF Recover, Becomes
  <2>2. [found EXCEPT !.at = "store"].at = "store" /\ [found EXCEPT !.at = "store"].answer = "none"
    BY DEF New
  <2>. QED BY <2>1, <2>2, BecomesCarries
<1>. QED BY <1>1, <1>2, <1>3

LEMMA BeginCarries ==
    ASSUME IInv, NEW r \in Requests, Begin(r)
    PROVE  Carries
<1>1. CASE \E u \in Users : AskRecovery(r, u)
  <2>1. PICK u \in Users : AskRecovery(r, u)
    BY <1>1
  <2>2. /\ req' = [req EXCEPT ![r] = [New EXCEPT !.user = u, !.at = "mail"]] /\ req[r].at = "new"
        /\ [New EXCEPT !.user = u, !.at = "mail"].at = "mail"
        /\ [New EXCEPT !.user = u, !.at = "mail"].answer = "none"
    BY <2>1 DEF AskRecovery, Becomes, New
  <2>. QED BY <2>2, BecomesCarries
<1>2. CASE \E u \in Users, totp \in BOOLEAN : SetTotp(r, u, totp)
  BY <1>2, EndsCarries DEF SetTotp, Answers
<1>3. CASE \E u \in Users, p, q \in Passwords, right \in BOOLEAN : Change(r, u, p, right, q)
  <2>1. PICK u \in Users, p \in Passwords, q \in Passwords, right \in BOOLEAN : Change(r, u, p, right, q)
    BY <1>3
  <2>2. CASE p = users[u].password /\ (users[u].totp => right)
    <3>1. /\ req' = [req EXCEPT ![r] = [New EXCEPT !.user = u, !.password = q, !.at = "store"]] /\ req[r].at = "new"
          /\ [New EXCEPT !.user = u, !.password = q, !.at = "store"].at = "store"
          /\ [New EXCEPT !.user = u, !.password = q, !.at = "store"].answer = "none"
      BY <2>1, <2>2 DEF Change, Becomes, New
    <3>. QED BY <3>1, BecomesCarries
  <2>3. CASE ~(p = users[u].password /\ (users[u].totp => right))
    BY <2>1, <2>3, EndsCarries DEF Change, Answers
  <2>. QED BY <2>2, <2>3
<1>. QED BY <1>1, <1>2, <1>3, LoginCarries, OAuthLoginCarries, BeginFactorCarries, RecoverCarries DEF Begin

LEMMA JudgeCodeCarries ==
    ASSUME IInv, NEW r \in Requests, NEW right \in BOOLEAN, JudgeCode(r, right)
    PROVE  Carries
<1>1. PICK at \in {"discard", "consume", "failure"} : Goes(r, at)
  BY DEF JudgeCode
<1>2. InFactor(r)
  BY DEF JudgeCode, InFactor
<1>. QED BY <1>1, <1>2, GoesCarries DEF Steps

LEMMA ContinueCarries ==
    ASSUME IInv, NEW r \in Requests, Continue(r)
    PROVE  Carries
<1>1. CASE IssueChallenge(r) \/ Discard(r) \/ Mailed(r) \/ NotMailed(r) \/ RevokeSessions(r)
  BY <1>1, EndsCarries DEF IssueChallenge, Discard, Mailed, NotMailed, RevokeSessions, Answers
<1>2. CASE CreateSession(r)
  BY <1>2, EndsCarries DEF CreateSession, Answers
<1>3. CASE RecordFailure(r)
  BY <1>3, EndsCarries, GoesCarries DEF RecordFailure, Answers, Steps
<1>4. CASE Consume(r)
  BY <1>4, EndsCarries, GoesCarries DEF Consume, Answers, Steps
<1>5. CASE MarkUsed(r) \/ InvalidateResets(r)
  BY <1>5, GoesCarries DEF MarkUsed, InvalidateResets, Steps
<1>. QED BY <1>1, <1>2, <1>3, <1>4, <1>5, RehashCarries, StorePasswordCarries, JudgeCodeCarries DEF Continue

LEMMA StepCarries ==
    ASSUME IInv, [Next]_vars
    PROVE  Carries
<1>1. ASSUME req' = req PROVE Carries
  BY <1>1, UntouchedIsHeld DEF Carries
<1>2. ASSUME NEW r \in Requests, Break(r) PROVE Carries
  <2>1. PICK answer \in {"half", "failed"} : Ends(r, answer)
    BY <1>2 DEF Break
  <2>. QED BY <2>1, EndsCarries DEF Answers
<1>3. CASE \E r \in Requests : EndSession(r) \/ ExpireChallenge(r) \/ ExpireReset(r)
  BY <1>1, <1>3 DEF EndSession, ExpireChallenge, ExpireReset
<1>. QED BY <1>1, <1>2, <1>3, BeginCarries, ContinueCarries DEF Next, vars

\* What was issued stays as it was, so what is carried from it stays equal to it.
LEMMA FactorsStep ==
    ASSUME IInv, IInv', FactorsAreCarried, Carries
    PROVE  FactorsAreCarried'
<1>1. ASSUME NEW c \in Requests, req[c].answer = "mfa"
      PROVE  Same(c)
  BY <1>1 DEF IInv, TokensAreIssued, Carries, Held, BegunAlone, BegunFor
<1>2. ASSUME NEW x \in Requests, Granted(x)', req'[x].totp
      PROVE  req'[x].token # None
  <2>1. CASE Held(x)
    <3>1. Granted(x) \/ req[x].at = "consume"
      BY <1>2, <2>1 DEF Held, Same
    <3>2. req[x].token # None
      BY <1>2, <2>1, <3>1, NoneAssumption DEF Held, Same, FactorsAreCarried, IInv, TokensAreIssued
    <3>. QED BY <2>1, <3>2 DEF Held, Same
  <2>. QED BY <1>2, <2>1, NoneAssumption DEF Carries, BegunAlone, BegunFor
<1>3. ASSUME NEW x \in Requests, NEW c \in Requests, Granted(x)' \/ InFactor(x)', req'[x].token = c
      PROVE  req'[c].user = req'[x].user /\ req'[c].password = req'[x].password
  <2>1. CASE Held(x)
    <3>1. req[x].token = c /\ Same(x)
      BY <1>3, <2>1 DEF Held, Same
    <3>2. Granted(x) \/ InFactor(x)
      BY <1>3, <2>1, <3>1, NoneAssumption DEF Held, InFactor, IInv, RequestsAreBegun
    <3>3. req[c].answer = "mfa"
      BY <3>1, <3>2 DEF IInv, TokensAreIssued, Passed, Granted, InFactor
    <3>4. req[c].user = req[x].user /\ req[c].password = req[x].password
      BY <3>1, <3>2 DEF FactorsAreCarried, InFactor
    <3>. QED BY <1>1, <3>1, <3>3, <3>4 DEF Same
  <2>2. CASE \E d \in Requests : BegunFor(x, d)
    BY <1>1, <1>3, <2>2 DEF BegunFor, Same
  <2>. QED BY <1>3, <2>1, <2>2, NoneAssumption DEF Carries, BegunAlone
<1>. QED BY <1>2, <1>3 DEF FactorsAreCarried, InFactor

LEMMA FactorsInvariance == Spec => []FInv
<1>1. Init => FInv
  <2>. SUFFICES ASSUME Init PROVE FInv
    OBVIOUS
  <2>1. \A r \in Requests : ~Granted(r) /\ ~InFactor(r)
    BY DEF Init, New, Granted, InFactor
  <2>. QED BY <2>1, InitHolds DEF FInv, FactorsAreCarried, InFactor
<1>2. FInv /\ [Next]_vars => FInv'
  BY StepKeeps, StepCarries, FactorsStep DEF FInv
<1>. QED BY <1>1, <1>2, PTL DEF Spec

\* Nobody who was read to have a second factor gets a session without answering a
\* challenge issued for that account and that password, whatever runs in between.
THEOREM FactorsCorrect == Spec => []SecondFactorsArePassed
<1>1. FInv => SecondFactorsArePassed
  <2>. SUFFICES ASSUME FInv, NEW r \in Requests, Granted(r), req[r].totp
                PROVE  \E c \in Requests : /\ Passed(r, c) /\ req[c].answer = "mfa" /\ ~challenges[c].open
                                           /\ req[c].user = req[r].user /\ req[c].password = req[r].password
    BY DEF SecondFactorsArePassed
  <2>1. req[r].token \in Requests
    BY DEF FInv, FactorsAreCarried, IInv, TypeOK
  <2>2. Passed(r, req[r].token)
    BY DEF Passed, Granted
  <2>3. req[req[r].token].answer = "mfa" /\ ~challenges[req[r].token].open
    BY <2>1, <2>2 DEF FInv, IInv, TokensAreIssued, ChallengesGiveOneSession
  <2>4. req[req[r].token].user = req[r].user /\ req[req[r].token].password = req[r].password
    BY <2>1 DEF FInv, FactorsAreCarried
  <2>. QED BY <2>1, <2>2, <2>3, <2>4
<1>. QED BY <1>1, FactorsInvariance, PTL
=============================================================================
