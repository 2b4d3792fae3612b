---------------------------- MODULE LoginSemaphore ----------------------------
(***************************************************************************)
(* The bound on simultaneous password verifications, the class Semaphore of *)
(* functions/_shared/login-concurrency.js: a login runs at once while there *)
(* is a free slot, waits in a bounded queue with a timer otherwise, and is  *)
(* refused when the queue is full or its timer fires.                       *)
(*                                                                          *)
(* run, drain and the timer callback are synchronous, so each is one step.  *)
(* The end of a task, the answer to its caller and the release of its slot  *)
(* are promise reactions of their own: start() releases before it answers   *)
(* and drain() answers before it releases, and here either may come first.  *)
(* A task that drain() hands to a reaction has started: no timer can come   *)
(* between.  What a task does is left out; it ends, well or badly.          *)
(***************************************************************************)
EXTENDS Integers, Sequences, FiniteSets

CONSTANTS
    Requests,           \* logins, each made once
    RawLimit,           \* PORTALESS_LOGIN_CONCURRENCY as a number
    RawQueueMax         \* PORTALESS_LOGIN_QUEUE_MAX as a number

\* Out of range, or no integer at all: the default.
Limit == IF RawLimit \in 1..64 THEN RawLimit ELSE 4
QueueMax == IF RawQueueMax \in 0..1024 THEN RawQueueMax ELSE 32

VARIABLES
    active,     \* the slots the semaphore counts as taken
    queue,      \* the waiting requests, oldest first
    timers,     \* the requests whose timer is armed
    task,       \* request -> "none", "running" or "over"
    holders,    \* the requests whose task was started and not released yet
    answer      \* request -> what its promise settled to

vars == <<active, queue, timers, task, holders, answer>>

Waits(r) == \E i \in DOMAIN queue : queue[i] = r

\* A request that was not made yet.
New(r) == task[r] = "none" /\ answer[r] = "none" /\ ~Waits(r)

Init ==
    /\ active = 0
    /\ queue = <<>>
    /\ timers = {}
    /\ task = [r \in Requests |-> "none"]
    /\ holders = {}
    /\ answer = [r \in Requests |-> "none"]

\* Mutant of Start: one slot too many.
StartOffByOne(r) ==
    /\ New(r)
    /\ active <= Limit
    /\ active' = active + 1
    /\ task' = [task EXCEPT ![r] = "running"]
    /\ holders' = holders \cup {r}
    /\ UNCHANGED <<queue, timers, answer>>

\* run() finds a free slot, whoever waits.
Start(r) ==
    /\ New(r)
    /\ active < Limit
    /\ active' = active + 1
    /\ task' = [task EXCEPT ![r] = "running"]
    /\ holders' = holders \cup {r}
    /\ UNCHANGED <<queue, timers, answer>>

\* run() finds the queue full.
Refuse(r) ==
    /\ New(r)
    /\ active >= Limit
    /\ Len(queue) >= QueueMax
    /\ answer' = [answer EXCEPT ![r] = "queue_full"]
    /\ UNCHANGED <<active, queue, timers, task, holders>>

\* run() waits, with a timer.
Enqueue(r) ==
    /\ New(r)
    /\ active >= Limit
    /\ Len(queue) < QueueMax
    /\ queue' = Append(queue, r)
    /\ timers' = timers \cup {r}
    /\ UNCHANGED <<active, task, holders, answer>>

\* A promise settles once.
Settle(r, outcome) ==
    answer' = IF answer[r] = "none" THEN [answer EXCEPT ![r] = outcome] ELSE answer

\* indexOf(r) and splice(index, 1), if it is there.
PlaceOf(r) == CHOOSE i \in DOMAIN queue : queue[i] = r
Without(r) ==
    IF Waits(r)
    THEN [k \in 1..Len(queue) - 1 |-> IF k < PlaceOf(r) THEN queue[k] ELSE queue[k + 1]]
    ELSE queue

\* The timer fires: the entry leaves the queue, if it is there, and is refused.
Timeout(r) ==
    /\ r \in timers
    /\ timers' = timers \ {r}
    /\ queue' = Without(r)
    /\ Settle(r, "queue_timeout")
    /\ UNCHANGED <<active, task, holders>>

End(r) ==
    /\ task[r] = "running"
    /\ task' = [task EXCEPT ![r] = "over"]
    /\ UNCHANGED <<active, queue, timers, holders, answer>>

Answer(r) ==
    /\ task[r] = "over"
    /\ answer[r] = "none"
    /\ Settle(r, "result")
    /\ UNCHANGED <<active, queue, timers, task, holders>>

\* The loop of drain(), with a slots taken, starts n of the waiting requests.
Drains(a, n) ==
    /\ \A k \in 0..n - 1 : a + k < Limit
    /\ n = Len(queue) \/ a + n >= Limit

\* Mutant of Release: nobody is woken up.
ReleaseNoDrain(r) ==
    /\ r \in holders
    /\ task[r] = "over"
    /\ active' = active - 1
    /\ holders' = holders \ {r}
    /\ UNCHANGED <<queue, timers, task, answer>>

\* Mutant of Release: the timer of a request that starts is not cleared.
ReleaseNoClear(r) ==
    /\ r \in holders
    /\ task[r] = "over"
    /\ \E n \in 0..Len(queue) :
         LET started == {queue[i] : i \in 1..n} IN
         /\ Drains(active - 1, n)
         /\ active' = active - 1 + n
         /\ queue' = SubSeq(queue, n + 1, Len(queue))
         /\ task' = [q \in Requests |-> IF q \in started THEN "running" ELSE task[q]]
         /\ holders' = (holders \ {r}) \cup started
    /\ UNCHANGED <<timers, answer>>

\* Mutant of Release: pop for shift.
ReleaseNewest(r) ==
    /\ r \in holders
    /\ task[r] = "over"
    /\ \E n \in 0..Len(queue) :
         LET started == {queue[i] : i \in Len(queue) - n + 1..Len(queue)} IN
         /\ Drains(active - 1, n)
         /\ active' = active - 1 + n
         /\ queue' = SubSeq(queue, 1, Len(queue) - n)
         /\ timers' = timers \ started
         /\ task' = [q \in Requests |-> IF q \in started THEN "running" ELSE task[q]]
         /\ holders' = (holders \ {r}) \cup started
    /\ UNCHANGED answer

\* The slot is given back and drain() starts whom it can, oldest first.
Release(r) ==
    /\ r \in holders
    /\ task[r] = "over"
    /\ \E n \in 0..Len(queue) :
         LET started == {queue[i] : i \in 1..n} IN
         /\ Drains(active - 1, n)
         /\ active' = active - 1 + n
         /\ queue' = SubSeq(queue, n + 1, Len(queue))
         /\ timers' = timers \ started
         /\ task' = [q \in Requests |-> IF q \in started THEN "running" ELSE task[q]]
         /\ holders' = (holders \ {r}) \cup started
    /\ UNCHANGED answer

Next ==
    \E r \in Requests :
        \/ Start(r) \/ Refuse(r) \/ Enqueue(r)
        \/ Timeout(r)
        \/ End(r) \/ Answer(r) \/ Release(r)

Spec == Init /\ [][Next]_vars

\* A verification ends, and the event loop runs the reactions it has queued.
\* Nothing is asked of the timers.
FairSpec == Spec /\ \A r \in Requests : WF_vars(End(r) \/ Answer(r) \/ Release(r))

-----------------------------------------------------------------------------

\* The counter does not go below zero, and the queue holds requests.
TypeOK ==
    /\ active \in Nat
    /\ queue \in Seq(Requests)
    /\ timers \in SUBSET Requests
    /\ task \in [Requests -> {"none", "running", "over"}]
    /\ holders \in SUBSET Requests
    /\ answer \in [Requests -> {"none", "result", "queue_full", "queue_timeout"}]

\* No more verifications run at once than the limit says, and no
\* more wait than the queue takes; the counter is exact, so no slot leaks.
MemoryIsBounded ==
    /\ IsFiniteSet(holders)
    /\ active = Cardinality(holders)
    /\ {r \in Requests : task[r] = "running"} \subseteq holders
    /\ active <= Limit
    /\ Len(queue) <= QueueMax

\* Nobody waits while a slot is free.  run() relies on it: it never looks at the
\* queue when it finds a free slot.
NoSlotIsWasted == queue # <<>> => active = Limit

\* A refused login was not verified and never will be, however its timer raced
\* with the end of another; who waits has one place, a timer and no answer.
AnswersAreTrue ==
    /\ \A r \in Requests :
         /\ answer[r] \in {"queue_full", "queue_timeout"} => task[r] = "none" /\ ~Waits(r)
         /\ answer[r] = "result" => task[r] = "over"
         /\ r \in timers <=> Waits(r)
         /\ Waits(r) => task[r] = "none" /\ answer[r] = "none"
    /\ \A i, j \in DOMAIN queue : queue[i] = queue[j] => i = j

\* A request that starts leaves nobody behind who was waiting before it.
FirstComeFirstServed ==
    [][\A r \in Requests :
          (task[r] = "none" /\ task'[r] = "running") =>
              \A i \in DOMAIN queue :
                  (\A j \in DOMAIN queue : queue[j] = r => i < j) => task'[queue[i]] = "running"]_vars

\* The safety half of the next property: whoever goes on waiting never loses a
\* place, whatever timer fires or newcomer arrives, and every slot that is given
\* back takes them a place further.
PlacesImprove ==
    [][\A r \in Requests :
          (Waits(r) /\ Waits(r)') =>
              \E i \in DOMAIN queue, k \in DOMAIN queue' :
                  /\ queue[i] = r /\ queue'[k] = r
                  /\ k <= i
                  /\ holders \subseteq holders' \/ k < i]_vars

\* Also if no timer ever fires, who waits gets a slot.
WaitersAreServed ==
    \A r \in Requests : Waits(r) ~> (task[r] = "over" \/ answer[r] = "queue_timeout")

\* The inductive invariant: the properties, and that whoever holds a slot has
\* started.
IInv ==
    /\ TypeOK
    /\ MemoryIsBounded
    /\ NoSlotIsWasted
    /\ AnswersAreTrue
    /\ \A r \in holders : task[r] # "none"

=============================================================================
