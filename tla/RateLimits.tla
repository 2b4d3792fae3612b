------------------------------ MODULE RateLimits ------------------------------
(***************************************************************************)
(* The counters of packages/auth that limit logins, recoveries and          *)
(* installs: one table, auth_rate_limits, of fixed windows of two lengths,  *)
(* a quarter of an hour and an hour, and the requests that count in it.     *)
(*                                                                          *)
(* A hit() deletes the rows of earlier windows and adds one to its own row. *)
(* On SQLite both happen in the step that read the clock; on D1 the clock   *)
(* is read first and each statement is a request of its own.  Anything may  *)
(* happen between two steps of a request.  The unit of time is a quarter.   *)
(***************************************************************************)
EXTENDS Naturals, FiniteSets

CONSTANTS
    Requests,  \* what clients ask for, each once
    Ips,
    Users,
    Quarters,  \* how many short windows an hour has
    Began,     \* the first short window of the model, in the first hour
    MaxClock,  \* the last one
    Limit,     \* the configured limit of every kind of bucket
    None

IpKinds == {"attempt", "ipFailures", "resetIp", "actionIp"}
UserKinds == {"userFailures", "resetUser", "actionActor"}
Kinds == IpKinds \cup UserKinds
ShortKinds == {"attempt", "ipFailures", "userFailures"}

ASSUME QuartersAssumption == Quarters \in Nat \ {0}
ASSUME ClockAssumption == MaxClock \in Nat /\ Began \in 0 .. MaxClock /\ Began < Quarters
ASSUME LimitAssumption == Limit \in [Kinds -> Nat \ {0}]
ASSUME KeysAssumption == None \notin Ips \cup Users

VARIABLES
    backend,  \* the store that was configured: "sqlite" or "d1"
    clock,    \* the present quarter
    hour,     \* the quarter in which the present hour began
    counts,   \* auth_rate_limits: bucket -> window -> count, 0 for no row
    req,      \* the requests in flight and their answers
    past      \* history: every count that was given, and how far rows were deleted

vars == <<backend, clock, hour, counts, req, past>>

Windows == 0 .. MaxClock
Buckets == [kind : Kinds, key : Ips \cup Users]

\* `at` is the bucket a request counts in next, or what it waits for; `sent`
\* says that its row's predecessors are deleted; `over`, that a count that decides
\* went over its limit.
New == [at |-> "new", ip |-> None, user |-> None, start |-> 0, sent |-> FALSE, over |-> FALSE]

\* Answered otherwise than with a limit, or gone without an answer.
Ended == [New EXCEPT !.at = "ended"]

Init ==
    /\ backend \in {"sqlite", "d1"}
    /\ clock = Began
    /\ hour = 0
    /\ counts = [b \in Buckets |-> [w \in Windows |-> 0]]
    /\ req = [r \in Requests |-> New]
    /\ past = [hits |-> {}, deleted |-> 0]

WindowStart(k) == IF k \in ShortKinds THEN clock ELSE hour

Bucket(x, k) == [kind |-> k, key |-> IF k \in IpKinds THEN x.ip ELSE x.user]

\* Mutant of Purged: the rows of the present window go too.
PurgedThrough(start) ==
    [b \in Buckets |-> [w \in Windows |-> IF w <= start THEN 0 ELSE counts[b][w]]]

\* DELETE FROM auth_rate_limits WHERE window_start < ?
Purged(start) ==
    [b \in Buckets |-> [w \in Windows |-> IF w < start THEN 0 ELSE counts[b][w]]]

\* Rows of windows before this were deleted, if they existed.
Deleted(start) == IF start > past.deleted THEN start ELSE past.deleted

\* What follows a count of kind k: an address over its limit is refused at once,
\* but for failures and actions, which are counted under the user too.
After(k, over) ==
    CASE k = "ipFailures" -> "userFailures"
      [] k = "actionIp" -> "actionActor"
      [] over -> "refused"
      [] k = "attempt" -> "verifying"
      [] k = "resetIp" -> "resetUser"
      [] OTHER -> "ended"

\* Mutant of Exceeds: a user name with too many failures is locked out.
ExceedsLockout(k, n) == n > Limit[k]

\* The count of kind k goes over the limit and decides the answer: the failures
\* of a user name never do.
Exceeds(k, n) == k # "userFailures" /\ n > Limit[k]

\* INSERT ... ON CONFLICT DO UPDATE SET count = count + 1 RETURNING count, for
\* request r as x, in a table from which rows may just have been deleted.
Counted(r, x, table, deleted) ==
    LET b == Bucket(x, x.at)
        n == table[b][x.start] + 1
        over == x.over \/ Exceeds(x.at, n)
    IN /\ counts' = [table EXCEPT ![b][x.start] = n]
       /\ past' = [deleted |-> deleted,
                   hits |-> past.hits \cup
                     {[req |-> r, bucket |-> b, start |-> x.start, count |-> n,
                       onTime |-> deleted <= x.start]}]
       /\ req' = [req EXCEPT ![r] =
                     IF After(x.at, over) = "ended" THEN Ended
                     ELSE [x EXCEPT !.at = After(x.at, over), !.sent = FALSE, !.over = over]]

\* hit(): on SQLite in this step, on D1 it has only been called.
Hits(r, x) ==
    /\ UNCHANGED <<backend, clock, hour>>
    /\ IF backend = "sqlite"
       THEN Counted(r, x, Purged(x.start), Deleted(x.start))
       ELSE req' = [req EXCEPT ![r] = x] /\ UNCHANGED <<counts, past>>

-----------------------------------------------------------------------------

\* A login, a request for a recovery mail or a plugin install reaches its first
\* limit: recordLoginAttempt, allowPasswordResetRequest, allowActionRequest.
Arrive(r, k, ip, user) ==
    /\ req[r] = New
    /\ k \in {"attempt", "resetIp", "actionIp"}
    /\ Hits(r, [New EXCEPT !.at = k, !.ip = ip, !.user = user, !.start = WindowStart(k)])

\* The second count of a request, in the window of the first.
HitSecond(r) ==
    /\ backend = "sqlite"
    /\ req[r].at \in UserKinds
    /\ Hits(r, req[r])

\* D1: the two statements of hit().
SendDelete(r) ==
    /\ backend = "d1"
    /\ req[r].at \in Kinds
    /\ ~req[r].sent
    /\ counts' = Purged(req[r].start)
    /\ past' = [past EXCEPT !.deleted = Deleted(req[r].start)]
    /\ req' = [req EXCEPT ![r].sent = TRUE]
    /\ UNCHANGED <<backend, clock, hour>>

SendInsert(r) ==
    /\ backend = "d1"
    /\ req[r].at \in Kinds
    /\ req[r].sent
    /\ Counted(r, req[r], counts, past.deleted)
    /\ UNCHANGED <<backend, clock, hour>>

\* The password, verified in a slot of the login semaphore, was wrong: the
\* failure is counted in the window of this moment.
Wrong(r) ==
    /\ req[r].at = "verifying"
    /\ Hits(r, [req[r] EXCEPT !.at = "ipFailures", !.start = WindowStart("ipFailures")])

\* It was right: both counters of failures are deleted, at once on SQLite.
Right(r) ==
    /\ req[r].at = "verifying"
    /\ req' = [req EXCEPT ![r] =
                 IF backend = "sqlite" THEN Ended
                 ELSE [@ EXCEPT !.at = "clearing", !.start = WindowStart("ipFailures")]]
    /\ counts' = IF backend = "sqlite"
                 THEN [b \in Buckets |->
                         IF b \in {Bucket(req[r], "ipFailures"), Bucket(req[r], "userFailures")}
                         THEN [counts[b] EXCEPT ![WindowStart("ipFailures")] = 0]
                         ELSE counts[b]]
                 ELSE counts
    /\ UNCHANGED <<backend, clock, hour, past>>

\* clear() on D1, one bucket at a time, in any order.
Clear(r, k) ==
    /\ req[r].at = "clearing"
    /\ k \in {"ipFailures", "userFailures"}
    /\ counts' = [counts EXCEPT ![Bucket(req[r], k)][req[r].start] = 0]
    /\ UNCHANGED <<backend, clock, hour, req, past>>

\* Both clears were answered; or, at any time, a statement fails, the semaphore
\* is full or the client leaves.
Leave(r) ==
    /\ req[r].at \notin {"new", "ended", "refused"}
    /\ req' = [req EXCEPT ![r] = Ended]
    /\ UNCHANGED <<backend, clock, hour, counts, past>>

Tick ==
    /\ clock < MaxClock
    /\ clock' = clock + 1
    /\ hour' = IF clock + 1 = hour + Quarters THEN clock + 1 ELSE hour
    /\ UNCHANGED <<backend, counts, req, past>>

Next ==
    \/ \E r \in Requests :
         \/ \E k \in Kinds, ip \in Ips, user \in Users : Arrive(r, k, ip, user)
         \/ HitSecond(r) \/ SendDelete(r) \/ SendInsert(r)
         \/ Wrong(r) \/ Right(r) \/ Leave(r)
         \/ \E k \in Kinds : Clear(r, k)
    \/ Tick

Spec == Init /\ [][Next]_vars

-----------------------------------------------------------------------------

TypeOK ==
    /\ backend \in {"sqlite", "d1"}
    /\ clock \in Windows /\ hour \in 0 .. clock
    /\ counts \in [Buckets -> [Windows -> Nat]]
    /\ req \in [Requests ->
         [at : Kinds \cup {"new", "verifying", "clearing", "refused", "ended"},
          ip : Ips \cup {None}, user : Users \cup {None}, start : 0 .. clock,
          sent : BOOLEAN, over : BOOLEAN]]
    /\ \A r \in Requests : req[r].at \notin {"new", "ended"} =>
         req[r].ip \in Ips /\ req[r].user \in Users
    /\ past \in [hits : SUBSET [req : Requests, bucket : Buckets, start : Windows,
                                count : Nat \ {0}, onTime : BOOLEAN],
                 deleted : 0 .. clock]

HitsOf(b, w) == {h \in past.hits : h.bucket = b /\ h.start = w}

\* Those that went through, of the buckets nobody clears.
Passed(b, w) == {h \in HitsOf(b, w) : h.count <= Limit[b.kind]}

\* In every window no more requests than the limit pass a bucket, however their
\* steps interleave, until the table moves past the window: that is, until a
\* request of a later window deletes its row.  On SQLite no login is counted
\* after that, so the limit of login attempts holds throughout.
LimitsHold ==
    /\ \A b \in Buckets, w \in Windows :
         b.kind \notin {"ipFailures", "userFailures"} =>
             Cardinality({h \in Passed(b, w) : h.onTime}) <= Limit[b.kind]
    /\ backend = "sqlite" =>
         \A h \in past.hits : h.bucket.kind = "attempt" => h.onTime

\* Who is refused was counted, after as many requests as the limit allows, in one
\* window and under its own address or the name it gave: never by an earlier
\* window, the buckets of another address or the failures of a user name (A-01).  A recovery or
\* an action may well be refused for what others did under the same name, as the
\* second limit intends; a login is refused for its own address alone.
RefusalsAreEarned ==
    \A r \in Requests : req[r].at = "refused" =>
        \E h \in past.hits :
            /\ h.req = r
            /\ h.bucket \in {Bucket(req[r], k) : k \in Kinds \ {"userFailures"}}
            /\ Cardinality(HitsOf(h.bucket, h.start)) > Limit[h.bucket.kind]
            /\ (\E g \in past.hits : g.req = r /\ g.bucket.kind = "attempt") =>
                 h.bucket.kind \in IpKinds

\* packages/auth/src/password-reset-rate-limit.ts:1-3: so many requests for each
\* address "por ventana fija de 1 hora".
HourlyLimitsHold ==
    backend = "sqlite" =>
        \A b \in Buckets, w \in Windows :
            b.kind = "resetIp" => Cardinality(Passed(b, w)) <= Limit[b.kind]

=============================================================================
